---- MODULE Spec2Model ----
(***************************************************************************)
(* Model of the CF16 correction pipeline (block 1, "create preview         *)
(* sheets"): pivot emulation, VGO reconciliation engine and the            *)
(* correction blocks written to a calculation sheet.                       *)
(*                                                                         *)
(* Conventions of the model                                                *)
(*  - Russian string literals of the source are transliterated (the        *)
(*    module is ASCII); each literal is a named definition.                *)
(*  - A worksheet is a sparse grid: a function from <<row, col>> to a      *)
(*    cell value; a cell that is absent from the domain holds None.        *)
(*  - A number is carried in halves: Num(n) is the number n/2, so that a    *)
(*    percentage of 0.5 or 1.5 is a value of the model.  The input amounts *)
(*    are multiples of 200, which makes sum * percent / 100 exact.         *)
(***************************************************************************)
EXTENDS Integers, Sequences, FiniteSets, TLC

VARIABLES
    pc,             \* position of the handler that is running
    variant,        \* the calculation sheet variant: [is_vgo, is_t2, is_cod]
    marja,          \* data rows of sheet MARJA (pv_source_data without its header)
    filtered_data,  \* result of _filter_data_for_sheet
    pivot_data,     \* dict of _create_pivot_data / _read_existing_pivot_data, in insertion order
    ledger,         \* data rows of the reconciliation ledger sheet
    exclusions,     \* processor.data.exclusions
    ws_map,         \* mapping sheet: [cells, merged]
    ws_calc,        \* calculation sheet
    vgo_pivot,      \* result of create_vgo_pivot_data: [present, rows]
    mapping_data,   \* result of get_vgo_mapping_data
    arr_err_be,     \* reconciliation queue
    arr_rpt,        \* reconciliation result (processor.result.arr_rpt)
    blocks,         \* the blocks written so far: rows, amount column, Check cell
    history,        \* statuses and queue at the end of the first engine run
    run             \* state of a block-1 run (process)

vars == <<pc, variant, marja, filtered_data, pivot_data, ledger, exclusions, ws_map,
          ws_calc, vgo_pivot, mapping_data, arr_err_be, arr_rpt, blocks, history, run>>

(***************************************************************************)
(* Literals of the source                                                  *)
(***************************************************************************)
GRAND_TOTAL == "Obshchiy itog"
SRC_VGO == "iz otcheta VGO"
SRC_BUDGET == "iz byudzheta"
CLUSTER_COD == "COD"
CLUSTER_KC == "KC"
BUYER_T2 == "T2"

(***************************************************************************)
(* Cell values: None, a string (a formula is a string that starts with     *)
(* "=") or a number                                                        *)
(***************************************************************************)
None == [k |-> "none", s |-> "", n |-> 0]
Str(x) == [k |-> "str", s |-> x, n |-> 0]
Num(x) == [k |-> "num", s |-> "", n |-> x]

\* str() of the number n/2
RECURSIVE DecStr(_)
DecStr(n) ==
    IF n < 0 THEN "-" \o DecStr(0 - n)
    ELSE IF n % 2 = 0 THEN ToString(n \div 2)
    ELSE ToString(n \div 2) \o ".5"

\* The numbers (in halves) whose decimal text float() is asked to parse in the model.
NumericRange == 0..800

IsNumericStr(x) == \E i \in NumericRange : DecStr(i) = x

\* str(value) of a cell value
CellStr(v) ==
    CASE v.k = "str" -> v.s
      [] v.k = "num" -> DecStr(v.n)
      [] OTHER -> "None"

safe_str(v) == IF v.k = "none" THEN "" ELSE CellStr(v)

safe_float(v, default) ==
    CASE v.k = "none" -> default
      [] v.k = "num" -> v.n
      [] v.k = "str" /\ IsNumericStr(v.s) -> CHOOSE i \in NumericRange : DecStr(i) = v.s
      [] OTHER -> default

\* Python truthiness of a cell value
Truthy(v) ==
    CASE v.k = "none" -> FALSE
      [] v.k = "str" -> v.s # ""
      [] v.k = "num" -> v.n # 0
      [] OTHER -> TRUE

(***************************************************************************)
(* Sequence helpers                                                        *)
(***************************************************************************)
SeqsUpTo(S, n) == UNION {[1..m -> S] : m \in 0..n}

RECURSIVE SumSeq(_)
SumSeq(s) == IF s = <<>> THEN 0 ELSE Head(s) + SumSeq(Tail(s))

\* Python round() of the number n/2 (ties go to the even integer), in halves
round(n) ==
    IF n % 2 = 0 THEN n
    ELSE LET f == (n - 1) \div 2 IN IF f % 2 = 0 THEN 2 * f ELSE 2 * (f + 1)

\* a * b / 100 for the numbers a/2 and b/2, in halves
MulDiv100(a, b) == (a * b) \div 200

Max(S) == CHOOSE x \in S : \A y \in S : y <= x
Min(S) == CHOOSE x \in S : \A y \in S : x <= y

(***************************************************************************)
(* Strings                                                                 *)
(***************************************************************************)
Contains(x, t) ==
    \E i \in 1..(Len(x) - Len(t) + 1) : SubSeq(x, i, i + Len(t) - 1) = t

StartsWith(x, t) == Len(x) >= Len(t) /\ SubSeq(x, 1, Len(t)) = t

ALPHABET == "ABCDEFGHIJKLMNOPQRSTUVWXYZ"

\* openpyxl.utils.get_column_letter, for the columns A..Z
get_column_letter(c) == SubSeq(ALPHABET, c, c)

(***************************************************************************)
(* Worksheets (openpyxl) and SheetHelper                                   *)
(***************************************************************************)
EmptySheet == [p \in {} |-> None]

\* ws.cell(row, column).value
Get(g, r, c) == IF <<r, c>> \in DOMAIN g THEN g[<<r, c>>] ELSE None

\* ws.cell(row, column).value = v
SetValue(g, r, c, v) ==
    IF v = None
    THEN [p \in DOMAIN g \ {<<r, c>>} |-> g[p]]
    ELSE (<<r, c>> :> v) @@ g

\* ws.cell(row, column, value=v): openpyxl leaves the cell alone when v is None
CellWrite(g, r, c, v) == IF v = None THEN g ELSE SetValue(g, r, c, v)

\* writes the values of the sequence vals in row r from column c on
WriteRow(g, r, c, vals) ==
    LET written == {i \in 1..Len(vals) : vals[i] # None}
    IN  [p \in {<<r, c + i - 1>> : i \in written} |-> vals[p[2] - c + 1]] @@ g

\* clears every cell of the rows r1..r2 in all columns
ClearWholeRows(g, r1, r2, c1, c2) ==
    [p \in {q \in DOMAIN g : ~(q[1] \in r1..r2)} |-> g[p]]

\* clears every cell of the rows r1..r2 in the columns c1..c2
ClearRange(g, r1, r2, c1, c2) ==
    [p \in {q \in DOMAIN g : ~(q[1] \in r1..r2 /\ q[2] \in c1..c2)} |-> g[p]]

max_row(g) == IF DOMAIN g = {} THEN 1 ELSE Max({p[1] : p \in DOMAIN g})

max_col(g) == IF DOMAIN g = {} THEN 1 ELSE Max({p[2] : p \in DOMAIN g})

get_used_range_end(g, column) ==
    LET rows == {p[1] : p \in {q \in DOMAIN g : q[2] = column}}
    IN  IF rows = {} THEN 1 ELSE Max(rows)

NotFound == <<0, 0>>

\* a search that walks the range column by column
find_value_by_columns(g, search_value, partial, start_row, start_col, end_row, end_col) ==
    LET er == IF end_row = 0 THEN max_row(g) ELSE end_row
        ec == IF end_col = 0 THEN max_col(g) ELSE end_col
        hits == {p \in DOMAIN g :
                    /\ p[1] \in start_row..er
                    /\ p[2] \in start_col..ec
                    /\ IF partial
                       THEN Contains(CellStr(g[p]), search_value)
                       ELSE CellStr(g[p]) = search_value}
    IN  IF hits = {}
        THEN NotFound
        ELSE LET c == Min({p[2] : p \in hits})
             IN  <<Min({p[1] : p \in {q \in hits : q[2] = c}}), c>>

\* find_value: the first hit in row-major order; end_row = 0 and end_col = 0
\* stand for the defaults max_row and max_col
find_value(g, search_value, partial, start_row, start_col, end_row, end_col) ==
    LET er == IF end_row = 0 THEN max_row(g) ELSE end_row
        ec == IF end_col = 0 THEN max_col(g) ELSE end_col
        hits == {p \in DOMAIN g :
                    /\ p[1] \in start_row..er
                    /\ p[2] \in start_col..ec
                    /\ IF partial
                       THEN Contains(CellStr(g[p]), search_value)
                       ELSE CellStr(g[p]) = search_value}
    IN  IF hits = {}
        THEN NotFound
        ELSE LET r == Min({p[1] : p \in hits})
             IN  <<r, Min({p[2] : p \in {q \in hits : q[1] = r}})>>

NoRange == <<0, 0, 0, 0>>

\* get_merged_cell_range over the sheet's merged ranges <<r1, c1, r2, c2>>
get_merged_cell_range(merged, r, c) ==
    LET in == {m \in merged : m[1] <= r /\ r <= m[3] /\ m[2] <= c /\ c <= m[4]}
    IN  IF in = {} THEN NoRange ELSE CHOOSE m \in in : TRUE

(***************************************************************************)
(* _filter_data_for_sheet: rows of the variant, in their order             *)
(***************************************************************************)
RowPasses(row, is_budget, is_t2, is_cod) ==
    /\ IF is_budget THEN safe_str(row.source) = SRC_BUDGET
                    ELSE safe_str(row.source) = SRC_VGO
    /\ IF is_cod THEN safe_str(row.cluster) = CLUSTER_COD
                 ELSE safe_str(row.cluster) = CLUSTER_KC
    /\ IF is_t2 THEN safe_str(row.buyer_name) = BUYER_T2
                ELSE safe_str(row.buyer_name) # BUYER_T2

_filter_data_for_sheet(data, is_budget, is_t2, is_cod) ==
    SelectSeq(data, LAMBDA row : RowPasses(row, is_budget, is_t2, is_cod))

(***************************************************************************)
(* _create_pivot_data: group by (supplier, cost center or contract, buyer) *)
(* and sum the amount column.  A dict is a sequence of records in          *)
(* insertion order, each with its key.                                     *)
(***************************************************************************)
PivotKeyOf(row, is_vgo, is_t2) ==
    <<safe_str(row.sup),
      safe_str(IF is_vgo /\ is_t2 THEN row.contract ELSE row.cfo),
      safe_str(row.be_load)>>

PivotIndex(pivot, key) ==
    IF \E i \in DOMAIN pivot : pivot[i].key = key
    THEN CHOOSE i \in DOMAIN pivot : pivot[i].key = key
    ELSE 0

PivotAddOverwrite(pivot, key, sum_val) ==
    LET i == PivotIndex(pivot, key)
    IN  IF i = 0
        THEN Append(pivot, [key |-> key, be_supplier |-> Str(key[1]), cfo |-> Str(key[2]),
                            be_buyer |-> Str(key[3]), sum |-> Num(sum_val)])
        ELSE [pivot EXCEPT ![i].sum = Num(sum_val)]

PivotAdd(pivot, key, sum_val) ==
    LET i == PivotIndex(pivot, key)
    IN  IF i = 0
        THEN Append(pivot, [key |-> key, be_supplier |-> Str(key[1]), cfo |-> Str(key[2]),
                            be_buyer |-> Str(key[3]), sum |-> Num(0 + sum_val)])
        ELSE [pivot EXCEPT ![i].sum = Num(@.n + sum_val)]

RECURSIVE PivotFold(_, _, _, _)
PivotFold(pivot, data, is_vgo, is_t2) ==
    IF data = <<>>
    THEN pivot
    ELSE PivotFold(PivotAdd(pivot, PivotKeyOf(Head(data), is_vgo, is_t2),
                            safe_float(Head(data).amt, 0)),
                   Tail(data), is_vgo, is_t2)

_create_pivot_data(data, is_vgo, is_t2) == PivotFold(<<>>, data, is_vgo, is_t2)

\* the sum of safe_float(values["sum"]) over the records of a dict
RECURSIVE PivotTotal(_)
PivotTotal(pivot) ==
    IF pivot = <<>> THEN 0 ELSE safe_float(Head(pivot).sum, 0) + PivotTotal(Tail(pivot))

(***************************************************************************)
(* Literals of the mapping sheet and of the calculation sheets             *)
(***************************************************************************)
SEC_OPEX == "Informaciya o CFO i statye iz byudzheta OPEX"
SEC_VGO == "Informaciya o CFO i statye iz VGO"
SEC_VGO_T2 == "Informaciya o CFO i statye iz VGO T2"
H_BE_CFO == "BE + CFO"
H_BE_DOG == "BE + Dogovor"
H_BE_SUP == "BE postavshchika"
H_BE == "BE"
H_CFO_KV == "CFO KV"
H_CFO_OPER == "CFO operacionnoe"
H_STAT_PL == "Statya PL"
H_STAT_OPER == "Statya operacionnaya"
H_STAT_KV == "Statya KV"
H_EXPENSES == "Raskhody"
H_PCT == "%"
H_DOGOVOR == "Dogovor"
H_STATUS == "Status analiza"
H_CONTRACT == "No invest. Dogovora"
H_SUM == "Summa raskhodov"
H_SUM_ACC == "Summa raskhodov s nakopitelnym itogom"
H_SUM_ACC_CALC == "Summa raskhodov s nakopitelnym itogom raschetnaya"
H_CFO_BUYER == "CFO pokupatelya"
H_BE_BUYER == "BE pokupatelya"
LABEL_CHECK == "Check"
PI02 == "PI02"
STATUS_OK == "OK"
STATUS_NOT_IN_MAPPING == "Net v mappinge"
STATUS_FOUND == "Est v vyverke VGO"
STATUS_NOT_FOUND == "Net v vyverke VGO"
ARTICLE_NOT_FOUND == "Statya ne naydena"
ACCOUNT_EXPENSE == "EXPENSE"

(***************************************************************************)
(* Cell references of a formula (openpyxl.utils)                           *)
(***************************************************************************)
\* get_column_letter for the columns A..ZZ
ColName(c) ==
    IF c <= 26
    THEN get_column_letter(c)
    ELSE get_column_letter((c - 1) \div 26) \o get_column_letter(((c - 1) % 26) + 1)

IsDigit(ch) == ch \in {"0", "1", "2", "3", "4", "5", "6", "7", "8", "9"}

\* str.strip() for blanks
RECURSIVE Strip(_)
Strip(x) ==
    IF Len(x) = 0 THEN x
    ELSE IF SubSeq(x, 1, 1) = " " THEN Strip(SubSeq(x, 2, Len(x)))
    ELSE IF SubSeq(x, Len(x), Len(x)) = " " THEN Strip(SubSeq(x, 1, Len(x) - 1))
    ELSE x

\* str.replace(ch, "") for a character ch
RECURSIVE RemoveChar(_, _)
RemoveChar(x, ch) ==
    IF Len(x) = 0 THEN x
    ELSE IF SubSeq(x, 1, 1) = ch THEN RemoveChar(SubSeq(x, 2, Len(x)), ch)
    ELSE SubSeq(x, 1, 1) \o RemoveChar(SubSeq(x, 2, Len(x)), ch)

MaxRefCol == 60
MaxRefRow == 99

\* coordinate_from_string and column_index_from_string: <<row, col>> of a
\* reference such as AA5, NotFound where openpyxl raises
coordinate_from_string(ref) ==
    LET digits == {i \in 1..Len(ref) : IsDigit(SubSeq(ref, i, i))}
        k == IF digits = {} THEN Len(ref) + 1 ELSE Min(digits)
        first == IF StartsWith(ref, "$") THEN 2 ELSE 1
        last == IF k - 1 > first /\ SubSeq(ref, k - 1, k - 1) = "$" THEN k - 2 ELSE k - 1
        letters == SubSeq(ref, first, last)
        number == SubSeq(ref, k, Len(ref))
        cols == {c \in 1..MaxRefCol : ColName(c) = letters}
        rows == {r \in 1..MaxRefRow : ToString(r) = number}
    IN  IF cols = {} \/ rows = {}
        THEN NotFound
        ELSE <<CHOOSE r \in rows : TRUE, CHOOSE c \in cols : TRUE>>

\* a key formula that is left as it is
LeaveFormula(g, val) == Str(val)

\* the value of a key formula =REF1&REF2, or the formula itself when the
\* code does not evaluate it
EvalConcat(g, val) ==
    LET amps == {i \in 1..Len(val) : SubSeq(val, i, i) = "&"}
    IN  IF Cardinality(amps) # 1
        THEN Str(val)
        ELSE LET i == CHOOSE j \in amps : TRUE
                 ref1 == Strip(RemoveChar(SubSeq(val, 1, i - 1), "="))
                 ref2 == Strip(SubSeq(val, i + 1, Len(val)))
                 p1 == coordinate_from_string(ref1)
                 p2 == coordinate_from_string(ref2)
             IN  IF p1 = NotFound \/ p2 = NotFound
                 THEN Str(val)
                 ELSE Str(safe_str(Get(g, p1[1], p1[2])) \o safe_str(Get(g, p2[1], p2[2])))

(***************************************************************************)
(* Readers of the mapping sheet.  ws is [cells, merged].                   *)
(***************************************************************************)
Min2(a, b) == IF a <= b THEN a ELSE b

HeaderKeys == {H_BE_CFO, H_BE_DOG, H_BE_SUP}

\* the value get_vgo_mapping_data keeps for the cell (row, col)
MappingCell(g, row, col, section_col) ==
    LET val == Get(g, row, col)
    IN  IF col = section_col /\ Truthy(val) /\ val.k = "str" /\ StartsWith(val.s, "=")
           /\ Contains(val.s, "&")
        THEN EvalConcat(g, val.s)
        ELSE val

RECURSIVE MappingRows(_, _, _, _, _)
MappingRows(g, row, last_row, section_col, width) ==
    IF row > last_row
    THEN <<>>
    ELSE LET row_data == [i \in 1..width |-> MappingCell(g, row, section_col + i - 1,
                                                         section_col)]
             has_data == \E i \in 1..width : Truthy(row_data[i])
         IN  IF ~has_data
             THEN <<>>
             ELSE IF safe_str(row_data[1]) \in HeaderKeys
             THEN MappingRows(g, row + 1, last_row, section_col, width)
             ELSE <<row_data>> \o MappingRows(g, row + 1, last_row, section_col, width)

get_vgo_mapping_data(ws, is_t2) ==
    LET g == ws.cells
        found == find_value(g, IF is_t2 THEN SEC_VGO_T2 ELSE SEC_VGO, FALSE, 1, 1, 0, 0)
    IN  IF found = NotFound
        THEN <<>>
        ELSE LET section_row == found[1]
                 section_col == found[2]
                 merged == get_merged_cell_range(ws.merged, section_row, section_col)
                 end_col == IF merged # NoRange THEN merged[4] ELSE section_col + 10
                 with_be == {r \in (section_row + 1)..(section_row + 4) :
                                /\ Truthy(Get(g, r, section_col))
                                /\ Contains(CellStr(Get(g, r, section_col)), H_BE)}
                 header_row == IF with_be = {} THEN section_row + 1 ELSE Min(with_be)
                 width == Min2(section_col + 15, end_col + 5) - section_col
             IN  MappingRows(g, header_row + 1, max_row(g), section_col, width)

_get_mapping_keys(ws, section_name, is_t2) ==
    LET g == ws.cells
        found == find_value(g, section_name, FALSE, 1, 1, 0, 0)
    IN  IF found = NotFound
        THEN {}
        ELSE LET section_row == found[1]
                 section_col == found[2]
                 filled == {r \in (section_row + 1)..(section_row + 4) :
                               Truthy(Get(g, r, section_col))}
                 header_row == IF filled = {} THEN section_row + 1 ELSE Min(filled)
                 be_col == section_col + 1
                 cfo_or_contract_col == section_col + 2
                 KeyStr(row) ==
                     LET key_str == safe_str(Get(g, row, section_col))
                     IN  IF StartsWith(key_str, "=")
                         THEN safe_str(Get(g, row, be_col))
                              \o safe_str(Get(g, row, IF is_t2 THEN cfo_or_contract_col + 1
                                                               ELSE cfo_or_contract_col))
                         ELSE key_str
                 Kept(row) ==
                     /\ Truthy(Get(g, row, section_col))
                     /\ StartsWith(safe_str(Get(g, row, section_col)), "=")
                            => safe_str(Get(g, row, be_col)) # ""
                     /\ KeyStr(row) \notin HeaderKeys
             IN  {KeyStr(row) : row \in {r \in (header_row + 1)..max_row(g) : Kept(r)}}

RequiredColumns == <<H_BE_SUP, H_CFO_OPER, H_STAT_OPER, H_PCT>>

\* the required column that a header cell claims: the first one, in the
\* order of the dict, contained in the text and not located yet
ClaimedBy(text, located) ==
    LET js == {j \in 1..4 : Contains(text, RequiredColumns[j]) /\ located[j] = 0}
    IN  IF js = {} THEN 0 ELSE Min(js)

RECURSIVE LocateColumns(_, _, _, _, _, _, _)
LocateColumns(g, row, col, last_row, first_col, last_col, located) ==
    IF row > last_row
    THEN located
    ELSE IF col > last_col
    THEN LocateColumns(g, row + 1, first_col, last_row, first_col, last_col, located)
    ELSE LET val == Get(g, row, col)
             j == IF Truthy(val) THEN ClaimedBy(Strip(CellStr(val)), located) ELSE 0
         IN  LocateColumns(g, row, col + 1, last_row, first_col, last_col,
                           IF j = 0 THEN located ELSE [located EXCEPT ![j] = col])

RECURSIVE OpexRows(_, _, _, _)
OpexRows(g, row, last_row, cols) ==
    IF row > last_row
    THEN <<>>
    ELSE LET be_val == Get(g, row, cols[1])
         IN  IF ~Truthy(be_val) \/ Strip(CellStr(be_val)) = ""
             THEN <<>>
             ELSE IF Strip(CellStr(be_val)) \in {H_BE_SUP, H_BE}
             THEN OpexRows(g, row + 1, last_row, cols)
             ELSE <<[be_supplier |-> safe_str(be_val),
                     cfo_oper |-> safe_str(Get(g, row, cols[2])),
                     stat_oper |-> safe_str(Get(g, row, cols[3])),
                     percent |-> safe_float(Get(g, row, cols[4]), 200)]>>
                  \o OpexRows(g, row + 1, last_row, cols)

_get_opex_mapping_data(ws, section_name) ==
    LET g == ws.cells
        found == find_value(g, section_name, FALSE, 1, 1, 0, 0)
    IN  IF found = NotFound
        THEN <<>>
        ELSE LET section_row == found[1]
                 section_col == found[2]
                 merged == get_merged_cell_range(ws.merged, section_row, section_col)
                 end_col == IF merged # NoRange THEN merged[4] ELSE section_col + 20
                 cols == LocateColumns(g, section_row, section_col,
                                       Min2(section_row + 10, max_row(g)) - 1, section_col,
                                       Min2(end_col + 10, section_col + 30) - 1,
                                       <<0, 0, 0, 0>>)
             IN  IF \E j \in 1..4 : cols[j] = 0
                 THEN <<>>
                 ELSE LET with_be == {r \in section_row..(section_row + 4) :
                                         /\ Truthy(Get(g, r, cols[1]))
                                         /\ Contains(CellStr(Get(g, r, cols[1])), H_BE_SUP)}
                          header_row == IF with_be = {} THEN section_row + 1
                                        ELSE Min(with_be)
                      IN  OpexRows(g, header_row + 1, max_row(g), cols)

(***************************************************************************)
(* Sorting: list.sort / sorted are stable                                  *)
(***************************************************************************)
ASCII == " !#$%&()*+,-./0123456789:;<=>?@ABCDEFGHIJKLMNOPQRSTUVWXYZ[]^_abcdefghijklmnopqrstuvwxyz"

CharRank(ch) ==
    IF \E i \in 1..Len(ASCII) : SubSeq(ASCII, i, i) = ch
    THEN CHOOSE i \in 1..Len(ASCII) : SubSeq(ASCII, i, i) = ch
    ELSE 0

\* x < y for Python strings
RECURSIVE StrLess(_, _)
StrLess(x, y) ==
    IF Len(y) = 0 THEN FALSE
    ELSE IF Len(x) = 0 THEN TRUE
    ELSE IF SubSeq(x, 1, 1) = SubSeq(y, 1, 1)
         THEN StrLess(SubSeq(x, 2, Len(x)), SubSeq(y, 2, Len(y)))
         ELSE CharRank(SubSeq(x, 1, 1)) < CharRank(SubSeq(y, 1, 1))

\* inserts x after the elements of the sorted sequence s whose key is not
\* greater than the key of x; a key is the field k, a number
RECURSIVE InsertNum(_, _)
InsertNum(s, x) ==
    IF s = <<>> THEN <<x>>
    ELSE IF x.k < Head(s).k THEN <<x>> \o s
    ELSE <<Head(s)>> \o InsertNum(Tail(s), x)

RECURSIVE SortNumFrom(_, _)
SortNumFrom(done, s) ==
    IF s = <<>> THEN done ELSE SortNumFrom(InsertNum(done, Head(s)), Tail(s))

\* the records left in their order
KeepOrder(s) == s

\* stable ascending sort of records by their numeric field k
SortNum(s) == SortNumFrom(<<>>, s)

RECURSIVE InsertStr(_, _, _)
InsertStr(s, x, reverse) ==
    IF s = <<>> THEN <<x>>
    ELSE IF (IF reverse THEN StrLess(Head(s).k, x.k) ELSE StrLess(x.k, Head(s).k))
    THEN <<x>> \o s
    ELSE <<Head(s)>> \o InsertStr(Tail(s), x, reverse)

RECURSIVE SortStrFrom(_, _, _)
SortStrFrom(done, s, reverse) ==
    IF s = <<>> THEN done
    ELSE SortStrFrom(InsertStr(done, Head(s), reverse), Tail(s), reverse)

\* stable sort of records by their string field k; reverse = descending
SortStr(s, reverse) == SortStrFrom(<<>>, s, reverse)

(***************************************************************************)
(* The summary table A:D of a calculation sheet                            *)
(***************************************************************************)
RECURSIVE WriteSummaryRows(_, _, _)
WriteSummaryRows(g, row, items) ==
    IF items = <<>>
    THEN g
    ELSE LET values == Head(items)
         IN  WriteSummaryRows(
                 WriteRow(g, row, 1, <<values.be_supplier, values.cfo, values.be_buyer,
                                       values.sum>>),
                 row + 1, Tail(items))

_write_summary_table(g, pivot, sort_by_sum_desc, is_vgo, is_t2) ==
    LET headers == <<Str(H_BE_SUP), Str(IF is_vgo /\ is_t2 THEN H_DOGOVOR ELSE H_CFO_BUYER),
                     Str(H_BE_BUYER), Str(H_SUM_ACC)>>
        keyed == [i \in DOMAIN pivot |-> [k |-> 0 - safe_float(pivot[i].sum, 0),
                                          v |-> pivot[i]]]
        sorted == SortNum(keyed)
        items == IF sort_by_sum_desc THEN [i \in DOMAIN sorted |-> sorted[i].v] ELSE pivot
        g1 == WriteSummaryRows(WriteRow(g, 5, 1, headers), 6, items)
        row == 6 + Len(items)
    IN  IF row > 6
        THEN CellWrite(CellWrite(g1, row, 1, Str(GRAND_TOTAL)), row, 4,
                       Num(PivotTotal(items)))
        ELSE g1

RECURSIVE ReadPivotRows(_, _, _, _)
ReadPivotRows(g, row, last_row, pivot) ==
    IF row > last_row
    THEN pivot
    ELSE LET be_supplier == Get(g, row, 1)
             cfo == Get(g, row, 2)
             be_buyer == Get(g, row, 3)
             sum_value == Get(g, row, 4)
             key == <<safe_str(be_supplier) \o "_" \o safe_str(cfo) \o "_"
                        \o safe_str(be_buyer)>>
             i == PivotIndex(pivot, key)
             next == IF ~Truthy(be_supplier) THEN pivot
                     ELSE IF i = 0
                     THEN Append(pivot, [key |-> key, be_supplier |-> be_supplier,
                                         cfo |-> cfo, be_buyer |-> be_buyer,
                                         sum |-> sum_value])
                     ELSE IF Truthy(sum_value)
                     THEN [pivot EXCEPT ![i].sum =
                              Num((IF Truthy(@) THEN @.n ELSE 0) + sum_value.n)]
                     ELSE pivot
         IN  ReadPivotRows(g, row + 1, last_row, next)

_read_existing_pivot_data(g) == ReadPivotRows(g, 6, get_used_range_end(g, 1), <<>>)

\* the records with the grand total row among them
WithGrandTotal(pivot) == pivot

\* the records that are not the grand total row
NotGrandTotal(pivot) == SelectSeq(pivot, LAMBDA values : CellStr(values.be_supplier) # GRAND_TOTAL)

\* real_data of _process_single_calc_sheet
RealData(pivot) ==
    SelectSeq(pivot, LAMBDA values :
        Truthy(values.be_supplier) /\ CellStr(values.be_supplier) # GRAND_TOTAL)

(***************************************************************************)
(* _write_pivot_to_sheet: the first block of a calculation sheet           *)
(***************************************************************************)
START_COL_ACCOUNT == 7

\* the f-string of the lookup key
LookupKey(values) == CellStr(values.be_supplier) \o CellStr(values.cfo)

\* the analysis status of a lookup key
AnalysisStatus(lookup_key, mapping_keys) ==
    IF mapping_keys # {} /\ lookup_key \in mapping_keys THEN STATUS_OK
    ELSE IF mapping_keys # {} THEN STATUS_NOT_IN_MAPPING
    ELSE STATUS_OK

RECURSIVE WriteVgoRows(_, _, _, _, _)
WriteVgoRows(g, row, items, start_col, mapping_keys) ==
    IF items = <<>>
    THEN g
    ELSE LET values == Head(items)
             lookup_key == LookupKey(values)
         IN  WriteVgoRows(
                 WriteRow(g, row, start_col,
                          <<Str(lookup_key), values.be_supplier, values.cfo,
                            Str(AnalysisStatus(lookup_key, mapping_keys))>>),
                 row + 1, Tail(items), start_col, mapping_keys)

RECURSIVE WriteBudgetRows(_, _, _, _)
WriteBudgetRows(g, row, items, start_col) ==
    IF items = <<>>
    THEN g
    ELSE LET values == Head(items)
             percent == 200
             calculated_sum == MulDiv100(0 - safe_float(values.sum, 0), percent)
         IN  WriteBudgetRows(
                 WriteRow(g, row, start_col,
                          <<Str(LookupKey(values)), values.be_supplier, values.cfo, Str(PI02),
                            Num(percent), Num(calculated_sum), values.be_buyer>>),
                 row + 1, Tail(items), start_col)

SumFormulaText(col, first_row, last_row) ==
    "=SUM($" \o get_column_letter(col) \o ToString(first_row) \o ":$"
        \o get_column_letter(col) \o ToString(last_row) \o ")"

\* the sheet after _write_pivot_to_sheet
_write_pivot_to_sheet(g, pivot, start_col, is_vgo, is_t2, mapping_keys) ==
    LET items == NotGrandTotal(pivot)
    IN  IF is_vgo
        THEN LET headers == IF is_t2
                            THEN <<Str(H_BE_DOG), Str(H_BE_SUP), Str(H_DOGOVOR), Str(H_STATUS)>>
                            ELSE <<Str(H_BE_CFO), Str(H_BE_SUP), Str(H_CFO_KV), Str(H_STATUS),
                                   Str(H_CONTRACT)>>
             IN  WriteVgoRows(WriteRow(g, 5, start_col, headers), 6, items, start_col,
                              mapping_keys)
        ELSE LET headers == <<Str(H_BE_CFO), Str(H_BE_SUP), Str(H_CFO_KV), Str(H_STAT_KV),
                              Str(H_PCT), Str(H_SUM), Str(H_BE_BUYER)>>
                 g1 == WriteBudgetRows(WriteRow(g, 5, start_col, headers), 6, items,
                                       start_col)
                 last_data_row == 6 + Len(items) - 1
                 check_col == start_col + 6
             IN  CellWrite(CellWrite(g1, 3, check_col - 1, Str(LABEL_CHECK)), 3, check_col,
                           Str(SumFormulaText(start_col + 5, 6, last_data_row)))

\* the block that _write_pivot_to_sheet has written on a budget sheet
BudgetFirstBlock(pivot, start_col) ==
    [name |-> "budget_first", first_row |-> 6,
     last_row |-> 6 + Len(NotGrandTotal(pivot)) - 1, amount_col |-> start_col + 5,
     check_row |-> 3, label_col |-> start_col + 5, check_col |-> start_col + 6]

(***************************************************************************)
(* _create_mapping_table_opex: the OPEX block of a budget sheet            *)
(***************************************************************************)
\* sum_by_key: (supplier, buyer) pairs in insertion order with their sums
RECURSIVE SumByKey(_, _)
SumByKey(acc, pivot) ==
    IF pivot = <<>>
    THEN acc
    ELSE LET pv_values == Head(pivot)
             sum_key == <<safe_str(pv_values.be_supplier), safe_str(pv_values.be_buyer)>>
             pv_sum == safe_float(pv_values.sum, 0)
             hit == {i \in DOMAIN acc : acc[i].key = sum_key}
         IN  SumByKey(IF hit = {}
                      THEN Append(acc, [key |-> sum_key, sum |-> 0 + pv_sum])
                      ELSE [acc EXCEPT ![CHOOSE i \in hit : TRUE].sum = @ + pv_sum],
                      Tail(pivot))

\* the percent of a mapping record left as it is read
RawPercent(percent) == percent

\* the percent of a mapping record as the budget block applies it
NormalizedPercent(percent) == IF round(percent) = 0 THEN 2 ELSE round(percent)

RECURSIVE OpexItemRows(_, _, _, _)
OpexItemRows(be_supplier, be_buyer, sum_acc, matched_rows) ==
    IF matched_rows = <<>>
    THEN <<>>
    ELSE LET map_item == Head(matched_rows)
             percent_val == NormalizedPercent(map_item.percent)
             rest == OpexItemRows(be_supplier, be_buyer, sum_acc, Tail(matched_rows))
         IN  IF map_item.cfo_oper = ""
             THEN rest
             ELSE <<[be_cfo |-> be_supplier \o map_item.cfo_oper,
                     be_supplier |-> be_supplier,
                     cfo_oper |-> map_item.cfo_oper,
                     stat_oper |-> map_item.stat_oper,
                     percent |-> percent_val,
                     sum |-> MulDiv100(sum_acc, percent_val),
                     sum_acc |-> sum_acc,
                     be_buyer |-> be_buyer]>> \o rest

RECURSIVE OpexRowsToWrite(_, _)
OpexRowsToWrite(sums, opex_mapping) ==
    IF sums = <<>>
    THEN <<>>
    ELSE LET be_supplier == Head(sums).key[1]
             be_buyer == Head(sums).key[2]
             matched_rows == SelectSeq(opex_mapping,
                                       LAMBDA m : m.be_supplier = be_supplier)
             rest == OpexRowsToWrite(Tail(sums), opex_mapping)
         IN  IF be_supplier = GRAND_TOTAL
             THEN rest
             ELSE OpexItemRows(be_supplier, be_buyer, Head(sums).sum, matched_rows) \o rest

\* rows_to_write left in the order of its construction
UnsortedOpexRows(rows) == rows

\* the four stable sorts of rows_to_write
SortOpexRows(rows) ==
    LET by_stat == SortStr([i \in DOMAIN rows |-> [k |-> rows[i].stat_oper, v |-> rows[i]]],
                           FALSE)
        by_cfo == SortStr([i \in DOMAIN rows |-> [k |-> by_stat[i].v.cfo_oper,
                                                   v |-> by_stat[i].v]], FALSE)
        by_buyer == SortStr([i \in DOMAIN rows |-> [k |-> by_cfo[i].v.be_buyer,
                                                     v |-> by_cfo[i].v]], FALSE)
        by_sup == SortStr([i \in DOMAIN rows |-> [k |-> by_buyer[i].v.be_supplier,
                                                   v |-> by_buyer[i].v]], TRUE)
    IN  [i \in DOMAIN rows |-> by_sup[i].v]

RECURSIVE WriteOpexRows(_, _, _)
WriteOpexRows(g, data_row, rows) ==
    IF rows = <<>>
    THEN g
    ELSE LET row_data == Head(rows)
         IN  WriteOpexRows(
                 WriteRow(g, data_row, START_COL_ACCOUNT,
                          <<Str(row_data.be_cfo), Str(row_data.be_supplier),
                            Str(row_data.cfo_oper), Str(row_data.stat_oper),
                            Num(row_data.percent), Num(row_data.sum), Num(row_data.sum_acc),
                            Str(row_data.be_buyer)>>),
                 data_row + 1, Tail(rows))

\* rows_to_write of _create_mapping_table_opex, sorted
BudgetOpexRows(pivot, opex_mapping) ==
    SortOpexRows(OpexRowsToWrite(SumByKey(<<>>, pivot), opex_mapping))

\* the sheet after _create_mapping_table_opex
_create_mapping_table_opex(g, pivot, opex_mapping) ==
    LET current_row == get_used_range_end(g, START_COL_ACCOUNT) + 5
        headers == <<Str(H_BE_CFO), Str(H_BE_SUP), Str(H_CFO_OPER), Str(H_STAT_OPER),
                     Str(H_PCT), Str(H_SUM), Str(H_SUM_ACC_CALC), Str(H_BE_BUYER)>>
        rows_to_write == BudgetOpexRows(pivot, opex_mapping)
        g1 == WriteOpexRows(WriteRow(g, current_row, START_COL_ACCOUNT, headers),
                            current_row + 1, rows_to_write)
        check_row == current_row - 2
        sum_col == START_COL_ACCOUNT + 5
        last_data_row == current_row + Len(rows_to_write)
    IN  CellWrite(CellWrite(g1, check_row, sum_col, Str(LABEL_CHECK)), check_row,
                  sum_col + 1, Str(SumFormulaText(sum_col, current_row + 1, last_data_row)))

\* the block that _create_mapping_table_opex writes on the sheet g
BudgetOpexBlock(g, pivot, opex_mapping) ==
    LET current_row == get_used_range_end(g, START_COL_ACCOUNT) + 5
    IN  [name |-> "budget_opex", first_row |-> current_row + 1,
         last_row |-> current_row + Len(BudgetOpexRows(pivot, opex_mapping)),
         amount_col |-> START_COL_ACCOUNT + 5, check_row |-> current_row - 2,
         label_col |-> START_COL_ACCOUNT + 5, check_col |-> START_COL_ACCOUNT + 6]

(***************************************************************************)
(* VgoProcessor: ledger pivot, reconciliation queue, ledger search         *)
(***************************************************************************)
\* the rows of the ledger that create_vgo_pivot_data keeps
ExpenseRows(rows) == SelectSeq(rows, LAMBDA r : safe_str(r.account) = ACCOUNT_EXPENSE)

GroupKey(r) == <<safe_str(r.be), safe_str(r.cfo), safe_str(r.article), safe_str(r.ref_id)>>

RECURSIVE GroupSum(_, _)
GroupSum(data, key) ==
    IF data = <<>> THEN 0
    ELSE (IF GroupKey(Head(data)) = key THEN safe_float(Head(data).sum, 0) ELSE 0)
         + GroupSum(Tail(data), key)

\* create_vgo_pivot_data: None without the sheet or without an EXPENSE row,
\* else the groups (be, cfo, article, ref_id) with their sums
create_vgo_pivot_data(sheet) ==
    LET data == ExpenseRows(sheet.rows)
    IN  IF ~sheet.present \/ data = <<>>
        THEN [present |-> FALSE, rows |-> {}]
        ELSE [present |-> TRUE,
              rows |-> {[be |-> key[1], cfo |-> key[2], article |-> key[3],
                         ref_id |-> key[4], sum |-> GroupSum(data, key)] :
                            key \in {GroupKey(data[i]) : i \in DOMAIN data}}]

\* mapping_keys of find_err_be
ErrMappingKeys(vgo_mapping) ==
    {safe_str(vgo_mapping[i][1]) :
        i \in {j \in DOMAIN vgo_mapping : Truthy(vgo_mapping[j][1])}}

RECURSIVE ErrRows(_, _, _, _, _, _)
ErrRows(g, row, end_row, be_col, key_col, mapping_keys) ==
    IF row > end_row
    THEN <<>>
    ELSE LET be_val == safe_str(Get(g, row, be_col))
             key_val == safe_str(Get(g, row, key_col))
             lookup_key == be_val \o key_val
             rest == ErrRows(g, row + 1, end_row, be_col, key_col, mapping_keys)
         IN  IF be_val = "" \/ lookup_key \in mapping_keys
             THEN rest
             ELSE <<[be |-> be_val, cfo |-> key_val, key |-> lookup_key, contract |-> "",
                     row |-> row]>> \o rest

find_err_be(g, vgo_mapping, is_t2) ==
    LET found_be == find_value(g, H_BE_SUP, FALSE, 1, START_COL_ACCOUNT, 0, 0)
        found_key == find_value(g, IF is_t2 THEN H_DOGOVOR ELSE H_CFO_KV, FALSE, 1,
                                START_COL_ACCOUNT, 0, 0)
    IN  IF found_be = NotFound \/ found_key = NotFound
        THEN <<>>
        ELSE ErrRows(g, found_be[1] + 1, get_used_range_end(g, found_be[2]), found_be[2],
                     found_key[2], ErrMappingKeys(vgo_mapping))

RECURSIVE collect_vgo_marja_data(_)
collect_vgo_marja_data(rows) ==
    IF rows = <<>>
    THEN <<>>
    ELSE LET r == Head(rows)
         IN  (IF safe_str(r.source) = SRC_VGO /\ safe_str(r.buyer_name) # BUYER_T2
              THEN <<[be |-> safe_str(r.sup), cfo |-> safe_str(r.cfo),
                      contract |-> safe_str(r.contract)]>>
              ELSE <<>>) \o collect_vgo_marja_data(Tail(rows))

RECURSIVE collect_vgo_marja_data_t2(_)
collect_vgo_marja_data_t2(rows) ==
    IF rows = <<>>
    THEN <<>>
    ELSE LET r == Head(rows)
         IN  (IF safe_str(r.source) = SRC_VGO /\ safe_str(r.buyer_name) = BUYER_T2
              THEN <<[be_supplier |-> safe_str(r.sup), cfo_buyer |-> safe_str(r.cfo),
                      contract |-> safe_str(r.contract)]>>
              ELSE <<>>) \o collect_vgo_marja_data_t2(Tail(rows))

\* the contract of the last MARJA record with the supplier and cost center
LastContract(err, arr_vgo_marja) ==
    LET hits == {i \in DOMAIN arr_vgo_marja :
                    arr_vgo_marja[i].be = err.be /\ arr_vgo_marja[i].cfo = err.cfo}
    IN  IF hits = {} THEN err.contract ELSE arr_vgo_marja[Max(hits)].contract

\* the contract of the first MARJA record with the supplier and cost center
FirstContract(err, arr_vgo_marja) ==
    LET hits == {i \in DOMAIN arr_vgo_marja :
                    arr_vgo_marja[i].be = err.be /\ arr_vgo_marja[i].cfo = err.cfo}
    IN  IF hits = {} THEN err.contract ELSE arr_vgo_marja[Min(hits)].contract

enrich_err_be_with_contracts(arr_err, arr_vgo_marja) ==
    [i \in DOMAIN arr_err |->
        IF arr_err[i].contract # ""
        THEN arr_err[i]
        ELSE [arr_err[i] EXCEPT !.contract = FirstContract(arr_err[i], arr_vgo_marja)]]

TopN == 5

\* head(n)
HeadN(s, n) == SubSeq(s, 1, Min2(n, Len(s)))

\* the orders that sort_values("sum", ascending=False) may give to a set of
\* ledger groups: the default sort is not stable, rows with equal sums come
\* in any order
RECURSIVE SortedOrders(_)
SortedOrders(S) ==
    IF S = {}
    THEN {<<>>}
    ELSE LET m == Max({x.sum : x \in S})
         IN  UNION {{<<x>> \o t : t \in SortedOrders(S \ {x})} : x \in {y \in S : y.sum = m}}

NotFoundRecord(err) ==
    [be |-> err.be, cfo |-> err.cfo, cfo_oper |-> STATUS_NOT_FOUND,
     article |-> STATUS_NOT_FOUND, sum |-> 0, contract |-> err.contract,
     status |-> STATUS_NOT_FOUND]

FoundRecords(err, rows) ==
    [i \in DOMAIN rows |->
        [be |-> err.be, cfo |-> err.cfo, cfo_oper |-> rows[i].cfo,
         article |-> rows[i].article, sum |-> rows[i].sum, contract |-> err.contract,
         status |-> STATUS_FOUND]]

\* the ledger groups of the contract of a queue record, excluded articles
\* included
CandidatesWithExcluded(err, order, excl) ==
    SelectSeq(order, LAMBDA x : x.ref_id = err.contract)

\* the candidates of a queue record, in the sorted order of the ledger pivot
Candidates(err, order, excl) ==
    SelectSeq(order, LAMBDA x : x.ref_id = err.contract /\ x.article \notin excl)

\* the records of arr_rpt for one queue record
SearchOne(err, order, excl) ==
    IF err.contract = "" \/ Candidates(err, order, excl) = <<>>
    THEN <<NotFoundRecord(err)>>
    ELSE FoundRecords(err, HeadN(Candidates(err, order, excl), TopN))

RECURSIVE SearchAll(_, _, _)
SearchAll(arr_err, order, excl) ==
    IF arr_err = <<>>
    THEN <<>>
    ELSE SearchOne(Head(arr_err), order, excl) \o SearchAll(Tail(arr_err), order, excl)

\* search_in_vgo_pivot for the ledger pivot rows in the order that the sort gave
search_in_vgo_pivot(arr_err, pivot, order, excl) ==
    IF ~pivot.present \/ pivot.rows = {} THEN <<>> ELSE SearchAll(arr_err, order, excl)

\* contract_dict of update_analysis_status: the contract of the last found
\* record with this be_cfo key, NotFound without one
ContractOf(rpts, key) ==
    LET hits == {i \in DOMAIN rpts :
                    /\ rpts[i].be \o "_" \o rpts[i].cfo = key
                    /\ rpts[i].status = STATUS_FOUND}
    IN  IF hits = {} THEN NotFound ELSE <<rpts[Max(hits)].contract>>

\* an update that leaves the contract column as it is
UpdateContractsSkipped(g, arr_err, rpts, contract_col) == g

RECURSIVE UpdateContracts(_, _, _, _)
UpdateContracts(g, arr_err, rpts, contract_col) ==
    IF arr_err = <<>>
    THEN g
    ELSE LET err == Head(arr_err)
             hit == ContractOf(rpts, err.be \o "_" \o err.cfo)
             g1 == IF hit # NotFound /\ contract_col # 0
                   THEN CellWrite(g, err.row, contract_col, Str(hit[1]))
                   ELSE IF contract_col # 0 /\ err.contract # ""
                   THEN CellWrite(g, err.row, contract_col, Str(err.contract))
                   ELSE g
         IN  UpdateContracts(g1, Tail(arr_err), rpts, contract_col)

\* an update that also marks the first record of the queue in the status column
UpdateStatusToo(g, arr_err, rpts) ==
    LET found_status == find_value(g, H_STATUS, FALSE, 1, START_COL_ACCOUNT, 0, 0)
        found_contract == find_value(g, H_CONTRACT, FALSE, 1, START_COL_ACCOUNT, 0, 0)
    IN  IF found_status = NotFound \/ arr_err = <<>>
        THEN g
        ELSE CellWrite(UpdateContracts(g, arr_err, rpts, found_contract[2]),
                       Head(arr_err).row, found_status[2], Str(STATUS_NOT_FOUND))

update_analysis_status(g, arr_err, rpts) ==
    LET found_status == find_value(g, H_STATUS, FALSE, 1, START_COL_ACCOUNT, 0, 0)
        found_contract == find_value(g, H_CONTRACT, FALSE, 1, START_COL_ACCOUNT, 0, 0)
    IN  IF found_status = NotFound
        THEN g
        ELSE UpdateContracts(g, arr_err, rpts, found_contract[2])

(***************************************************************************)
(* create_vgo_second_block: the CAPEX and OPEX blocks of a VGO sheet       *)
(***************************************************************************)
\* the article dictionary (sheet of operational and CAPEX articles)
ArticleDict == [key \in {"P1"} |-> "A1"]

ArticleGet(key) == IF key \in DOMAIN ArticleDict THEN ArticleDict[key] ELSE ""

StartCol(offset) == START_COL_ACCOUNT + offset

RECURSIVE WriteCapexRows(_, _, _)
WriteCapexRows(g, data_row, items) ==
    IF items = <<>>
    THEN g
    ELSE LET pv_values == Head(items)
             be_supplier == safe_str(pv_values.be_supplier)
             cfo == safe_str(pv_values.cfo)
             percent_val == 200
             calculated_sum == MulDiv100(0 - safe_float(pv_values.sum, 0), percent_val)
         IN  WriteCapexRows(
                 WriteRow(g, data_row, START_COL_ACCOUNT,
                          <<Str(be_supplier \o cfo), Str(be_supplier), Str(cfo), Str(PI02),
                            Num(percent_val), Num(calculated_sum), pv_values.be_buyer>>),
                 data_row + 1, Tail(items))

\* the key of a mapping row in mapping_dict, "" for a row that is left out
MappingDictKey(map_row) ==
    LET key_val == safe_str(map_row[1])
        key == IF StartsWith(key_val, "=")
               THEN safe_str(map_row[2]) \o safe_str(map_row[3])
               ELSE key_val
    IN  IF key \in {H_BE_CFO, H_BE_SUP} THEN "" ELSE key

MappingRowId(map_row) ==
    <<safe_str(map_row[2]), safe_str(map_row[3]), safe_str(map_row[4]),
      safe_str(map_row[6]), safe_str(map_row[8])>>

\* the rows of mapping_dict[key]: the rows with the key, without the rows
\* whose row_id has been seen in an earlier row of the mapping
MatchedRows(vgo_mapping, key) ==
    LET keep == {i \in DOMAIN vgo_mapping :
                    /\ MappingDictKey(vgo_mapping[i]) = key
                    /\ ~\E j \in 1..(i - 1) :
                          /\ MappingDictKey(vgo_mapping[j]) # ""
                          /\ MappingRowId(vgo_mapping[j]) = MappingRowId(vgo_mapping[i])}
    IN  IF key = "" THEN <<>>
        ELSE SelectSeq([i \in DOMAIN vgo_mapping |-> [i |-> i, row |-> vgo_mapping[i]]],
                       LAMBDA x : x.i \in keep)

RECURSIVE ExpenseSum(_, _, _)
ExpenseSum(vgo_mapping, be, cfo_kv) ==
    IF vgo_mapping = <<>> THEN 0
    ELSE (IF safe_str(Head(vgo_mapping)[2]) = be /\ safe_str(Head(vgo_mapping)[3]) = cfo_kv
          THEN safe_float(Head(vgo_mapping)[7], 0) ELSE 0)
         + ExpenseSum(Tail(vgo_mapping), be, cfo_kv)

\* percent_val of a mapping row of the VGO section
VgoPercent(map_row, vgo_mapping) ==
    LET percent_raw == safe_str(map_row[8])
        expense == safe_float(map_row[7], 0)
        sum_expense == ExpenseSum(vgo_mapping, safe_str(map_row[2]), safe_str(map_row[3]))
    IN  IF StartsWith(percent_raw, "=")
        THEN IF expense # 0 /\ sum_expense # 0
             THEN (200 * expense) \div sum_expense
             ELSE 200
        ELSE safe_float(Str(percent_raw), 200)

\* stat_oper of a mapping row of the VGO section
VgoStatOper(map_row) ==
    LET stat_oper == safe_str(map_row[6])
        stat_pl == safe_str(map_row[5])
    IN  IF StartsWith(stat_oper, "=")
        THEN IF stat_pl # "" /\ ~StartsWith(stat_pl, "=") THEN ArticleGet(stat_pl) ELSE ""
        ELSE stat_oper

RECURSIVE VgoOpexItemRows(_, _, _)
VgoOpexItemRows(pv_values, matched_rows, vgo_mapping) ==
    IF matched_rows = <<>>
    THEN <<>>
    ELSE LET map_row == Head(matched_rows).row
             be_supplier == safe_str(pv_values.be_supplier)
             cfo == safe_str(pv_values.cfo)
             cfo_oper == safe_str(map_row[4])
             stat_oper == VgoStatOper(map_row)
             percent_val == VgoPercent(map_row, vgo_mapping)
             base_sum == safe_float(pv_values.sum, 0)
             skip == \/ cfo_oper = ""
                     \/ stat_oper = ""
                     \/ StartsWith(cfo_oper, "=")
                     \/ stat_oper = ARTICLE_NOT_FOUND
             rest == VgoOpexItemRows(pv_values, Tail(matched_rows), vgo_mapping)
         IN  IF skip
             THEN rest
             ELSE <<[be_cfo |-> be_supplier \o cfo, be_supplier |-> be_supplier, cfo |-> cfo,
                     cfo_oper |-> cfo_oper, stat_oper |-> stat_oper,
                     percent_val |-> percent_val,
                     calculated_sum |-> MulDiv100(base_sum, percent_val),
                     base_sum |-> base_sum, be_buyer |-> pv_values.be_buyer]>> \o rest

RECURSIVE VgoOpexRowsToWrite(_, _)
VgoOpexRowsToWrite(items, vgo_mapping) ==
    IF items = <<>>
    THEN <<>>
    ELSE LET pv_values == Head(items)
             lookup_key == safe_str(pv_values.be_supplier) \o safe_str(pv_values.cfo)
         IN  VgoOpexItemRows(pv_values, MatchedRows(vgo_mapping, lookup_key), vgo_mapping)
             \o VgoOpexRowsToWrite(Tail(items), vgo_mapping)

Abs(n) == IF n < 0 THEN 0 - n ELSE n

\* opex_rows_to_write after the sort by -abs(base_sum)
VgoOpexRows(pivot, vgo_mapping) ==
    LET rows == VgoOpexRowsToWrite(NotGrandTotal(pivot), vgo_mapping)
        sorted == SortNum([i \in DOMAIN rows |-> [k |-> 0 - Abs(rows[i].base_sum),
                                                    v |-> rows[i]]])
    IN  [i \in DOMAIN rows |-> sorted[i].v]

RECURSIVE WriteVgoOpexRows(_, _, _)
WriteVgoOpexRows(g, data_row, rows) ==
    IF rows = <<>>
    THEN g
    ELSE LET row_data == Head(rows)
         IN  WriteVgoOpexRows(
                 WriteRow(g, data_row, START_COL_ACCOUNT,
                          <<Str(row_data.be_cfo), Str(row_data.be_supplier), Str(row_data.cfo),
                            Str(row_data.cfo_oper), Str(row_data.stat_oper),
                            Num(row_data.percent_val), Num(row_data.calculated_sum),
                            Num(row_data.base_sum), row_data.be_buyer>>),
                 data_row + 1, Tail(rows))

\* the sum of the truthy cells of a column in the rows r1..r2
RECURSIVE ColumnSum(_, _, _, _)
ColumnSum(g, col, r1, r2) ==
    IF r1 > r2 THEN 0
    ELSE (IF Truthy(Get(g, r1, col)) THEN safe_float(Get(g, r1, col), 0) ELSE 0)
         + ColumnSum(g, col, r1 + 1, r2)

\* the rows of the blocks that create_vgo_second_block writes on the sheet g
SecondBlockLayout(g, pivot, vgo_mapping) ==
    LET end_row_first == get_used_range_end(g, START_COL_ACCOUNT)
        check_row == end_row_first + 3
        current_row == check_row + 2
        capex_end_row == current_row + Len(NotGrandTotal(pivot))
        check_row_opex == capex_end_row + 3
        opex_header_row == check_row_opex + 2
    IN  [check_row |-> check_row, current_row |-> current_row,
         capex_end_row |-> capex_end_row, check_row_opex |-> check_row_opex,
         opex_header_row |-> opex_header_row,
         opex_end_row |-> opex_header_row + Len(VgoOpexRows(pivot, vgo_mapping))]

\* the Check value of the OPEX block: the sum of the written column
WriteOpexCheck(g, at) ==
    CellWrite(g, at.check_row_opex, StartCol(6),
              Num(ColumnSum(g, StartCol(6), at.opex_header_row + 1, at.opex_end_row)))

\* the cells that create_vgo_second_block writes, rows as laid out in at
WriteSecondBlock(g, at, filtered_pivot, total_sum, opex_rows) ==
    LET g1 == CellWrite(CellWrite(g, at.check_row, StartCol(5), Str(LABEL_CHECK)),
                        at.check_row, StartCol(6), Num(0 - total_sum))
        headers == <<Str(H_BE_CFO), Str(H_BE_SUP), Str(H_CFO_KV), Str(H_STAT_KV), Str(H_PCT),
                     Str(H_SUM), Str(H_BE_BUYER)>>
        g2 == WriteCapexRows(WriteRow(g1, at.current_row, START_COL_ACCOUNT, headers),
                             at.current_row + 1, filtered_pivot)
        g3 == CellWrite(g2, at.check_row_opex, StartCol(5), Str(LABEL_CHECK))
        headers_opex == <<Str(H_BE_CFO), Str(H_BE_SUP), Str(H_CFO_KV), Str(H_CFO_OPER),
                          Str(H_STAT_OPER), Str(H_PCT), Str(H_SUM), Str(H_SUM_ACC_CALC),
                          Str(H_BE_BUYER)>>
        g4 == ClearRange(WriteRow(g3, at.opex_header_row, START_COL_ACCOUNT, headers_opex),
                         at.opex_header_row + 1, at.opex_header_row + 199,
                         START_COL_ACCOUNT, START_COL_ACCOUNT + 9)
    IN  WriteOpexCheck(WriteVgoOpexRows(g4, at.opex_header_row + 1, opex_rows), at)

\* the sheet after create_vgo_second_block
create_vgo_second_block(g, pivot, vgo_mapping) ==
    WriteSecondBlock(g, SecondBlockLayout(g, pivot, vgo_mapping), NotGrandTotal(pivot),
                     PivotTotal(NotGrandTotal(pivot)), VgoOpexRows(pivot, vgo_mapping))

\* the blocks that create_vgo_second_block writes on the sheet g
SecondBlocks(g, pivot, vgo_mapping) ==
    LET at == SecondBlockLayout(g, pivot, vgo_mapping)
    IN  <<[name |-> "vgo_capex", first_row |-> at.current_row + 1,
           last_row |-> at.capex_end_row, amount_col |-> StartCol(5),
           check_row |-> at.check_row, label_col |-> StartCol(5), check_col |-> StartCol(6)],
          [name |-> "vgo_opex", first_row |-> at.opex_header_row + 1,
           last_row |-> at.opex_end_row, amount_col |-> StartCol(6),
           check_row |-> at.check_row_opex, label_col |-> StartCol(5),
           check_col |-> StartCol(6)]>>

(***************************************************************************)
(* create_vgo_t2_blocks: the CAPEX and OPEX blocks of a VGO T2 sheet       *)
(***************************************************************************)
\* cfo_kv_dict.get(key, ""): the buyer cost center of the last MARJA record
\* with this supplier and contract
CfoKv(arr_vgo_marja, lookup_key) ==
    LET hits == {i \in DOMAIN arr_vgo_marja :
                    /\ arr_vgo_marja[i].be_supplier # ""
                    /\ arr_vgo_marja[i].contract # ""
                    /\ arr_vgo_marja[i].be_supplier \o arr_vgo_marja[i].contract = lookup_key}
    IN  IF hits = {} THEN "" ELSE arr_vgo_marja[Max(hits)].cfo_buyer

RECURSIVE WriteT2CapexRows(_, _, _, _)
WriteT2CapexRows(g, data_row, items, arr_vgo_marja) ==
    IF items = <<>>
    THEN g
    ELSE LET pv_values == Head(items)
             be_supplier == safe_str(pv_values.be_supplier)
             cfo == safe_str(pv_values.cfo)
             cfo_kv == CfoKv(arr_vgo_marja, be_supplier \o cfo)
             percent_val == 200
             calculated_sum == MulDiv100(0 - safe_float(pv_values.sum, 0), percent_val)
         IN  WriteT2CapexRows(
                 WriteRow(g, data_row, START_COL_ACCOUNT,
                          <<Str(be_supplier \o cfo), Str(be_supplier), Str(cfo), Str(cfo_kv),
                            Str(PI02), Num(percent_val), Num(calculated_sum),
                            pv_values.be_buyer>>),
                 data_row + 1, Tail(items), arr_vgo_marja)

\* mapping_dict[key] of the T2 section
T2MatchedRows(vgo_mapping, key) ==
    SelectSeq(vgo_mapping,
              LAMBDA map_row : /\ safe_str(map_row[2]) # ""
                               /\ safe_str(map_row[4]) # ""
                               /\ safe_str(map_row[2]) \o safe_str(map_row[4]) = key)

RECURSIVE T2OpexItemRows(_, _)
T2OpexItemRows(pv_values, matched_rows) ==
    IF matched_rows = <<>>
    THEN <<>>
    ELSE LET map_row == Head(matched_rows)
             be_supplier == safe_str(pv_values.be_supplier)
             cfo == safe_str(pv_values.cfo)
             cfo_oper == safe_str(map_row[3])
             stat_oper == safe_str(map_row[5])
             percent_val == safe_float(map_row[7], 200)
             base_sum == safe_float(pv_values.sum, 0)
             rest == T2OpexItemRows(pv_values, Tail(matched_rows))
         IN  IF cfo_oper = ""
             THEN rest
             ELSE <<[be_cfo |-> be_supplier \o cfo, be_supplier |-> be_supplier, cfo |-> cfo,
                     cfo_oper |-> cfo_oper, stat_oper |-> stat_oper,
                     percent_val |-> percent_val,
                     calculated_sum |-> MulDiv100(base_sum, percent_val),
                     base_sum |-> base_sum, be_buyer |-> pv_values.be_buyer]>> \o rest

\* the OPEX rows of a T2 sheet, in the order of the pivot
RECURSIVE T2OpexRowsFrom(_, _)
T2OpexRowsFrom(items, vgo_mapping) ==
    IF items = <<>>
    THEN <<>>
    ELSE LET pv_values == Head(items)
             lookup_key == safe_str(pv_values.be_supplier) \o safe_str(pv_values.cfo)
         IN  T2OpexItemRows(pv_values, T2MatchedRows(vgo_mapping, lookup_key))
             \o T2OpexRowsFrom(Tail(items), vgo_mapping)

T2OpexRows(pivot, vgo_mapping) == T2OpexRowsFrom(NotGrandTotal(pivot), vgo_mapping)

\* the rows of the blocks that create_vgo_t2_blocks writes on the sheet g
T2BlockLayout(g, pivot, vgo_mapping) ==
    LET end_row_first == get_used_range_end(g, START_COL_ACCOUNT)
        check_row_1 == end_row_first + 3
        capex_header_row == check_row_1 + 2
        capex_end_row == capex_header_row + Len(NotGrandTotal(pivot))
        check_row_2 == capex_end_row + 3
        opex_header_row == check_row_2 + 2
    IN  [check_row_1 |-> check_row_1, capex_header_row |-> capex_header_row,
         capex_end_row |-> capex_end_row, check_row_2 |-> check_row_2,
         opex_header_row |-> opex_header_row,
         opex_end_row |-> opex_header_row + Len(T2OpexRows(pivot, vgo_mapping))]

\* the sheet after create_vgo_t2_blocks
create_vgo_t2_blocks(g, pivot, vgo_mapping, arr_vgo_marja) ==
    LET at == T2BlockLayout(g, pivot, vgo_mapping)
        filtered_pivot == NotGrandTotal(pivot)
        total_sum == PivotTotal(filtered_pivot)
        g1 == CellWrite(CellWrite(g, at.check_row_1, StartCol(6), Str(LABEL_CHECK)),
                        at.check_row_1, StartCol(7), Num(0 - total_sum))
        headers_capex == <<Str(H_BE_DOG), Str(H_BE_SUP), Str(H_DOGOVOR), Str(H_CFO_KV),
                           Str(H_STAT_KV), Str(H_PCT), Str(H_SUM), Str(H_BE_BUYER)>>
        g2 == WriteT2CapexRows(WriteRow(g1, at.capex_header_row, START_COL_ACCOUNT,
                                        headers_capex),
                               at.capex_header_row + 1, filtered_pivot, arr_vgo_marja)
        g3 == CellWrite(CellWrite(g2, at.check_row_2, StartCol(6), Str(LABEL_CHECK)),
                        at.check_row_2, StartCol(7), Num(total_sum))
        headers_opex == <<Str(H_BE_DOG), Str(H_BE_SUP), Str(H_DOGOVOR), Str(H_CFO_OPER),
                          Str(H_STAT_OPER), Str(H_PCT), Str(H_SUM), Str(H_SUM_ACC_CALC),
                          Str(H_BE_BUYER)>>
    IN  WriteVgoOpexRows(WriteRow(g3, at.opex_header_row, START_COL_ACCOUNT, headers_opex),
                         at.opex_header_row + 1, T2OpexRows(pivot, vgo_mapping))

\* the blocks that create_vgo_t2_blocks writes on the sheet g
T2Blocks(g, pivot, vgo_mapping) ==
    LET at == T2BlockLayout(g, pivot, vgo_mapping)
    IN  <<[name |-> "t2_capex", first_row |-> at.capex_header_row + 1,
           last_row |-> at.capex_end_row, amount_col |-> StartCol(6),
           check_row |-> at.check_row_1, label_col |-> StartCol(6), check_col |-> StartCol(7)],
          [name |-> "t2_opex", first_row |-> at.opex_header_row + 1,
           last_row |-> at.opex_end_row, amount_col |-> StartCol(6),
           check_row |-> at.check_row_2, label_col |-> StartCol(6),
           check_col |-> StartCol(7)]>>

(***************************************************************************)
(* Values of the variables that a specification does not use               *)
(***************************************************************************)
NoVariant == [is_vgo |-> FALSE, is_t2 |-> FALSE, is_cod |-> FALSE]
NoMap == [cells |-> EmptySheet, merged |-> {}]
NoVgoPivot == [present |-> FALSE, rows |-> {}]
NoLedger == [present |-> FALSE, rows |-> <<>>]
NoHistory == [taken |-> FALSE, statuses |-> <<>>, queue |-> <<>>]
NoRun == [progress |-> <<>>]

(***************************************************************************)
(* Specification SpecPivot: the pivot emulation of a VGO sheet             *)
(* (_process_single_calc_sheet, is_vgo branch): filter, then group.        *)
(***************************************************************************)
MaxPivotRows == 2

MarjaRow(sup, cfo, contract, be_load, amt, flags) ==
    [sup |-> sup, cfo |-> cfo, contract |-> contract, be_load |-> be_load, amt |-> amt,
     source |-> flags[1], cluster |-> flags[2], buyer_name |-> flags[3]]

PivotRowFlags ==
    {<<Str(SRC_VGO), Str(CLUSTER_KC), Str("X")>>,
     <<Str(SRC_VGO), Str(CLUSTER_COD), Str("X")>>,
     <<Str(SRC_VGO), Str(CLUSTER_KC), Str(BUYER_T2)>>,
     <<Str(SRC_BUDGET), Str(CLUSTER_KC), Str("X")>>}

PivotRows ==
    {MarjaRow(Str(sup), Str("C10"), Str("CT9"), be_load, amt, flags) :
        sup \in {"S1", "S2"}, be_load \in {Str("B1"), None},
        amt \in {Num(400), Str("200"), Str("n/a")}, flags \in PivotRowFlags}

VgoVariants ==
    {[is_vgo |-> TRUE, is_t2 |-> t2, is_cod |-> cod] : t2 \in BOOLEAN, cod \in BOOLEAN}

InitPivot ==
    /\ pc = "pivot_filter"
    /\ variant \in VgoVariants
    /\ marja \in SeqsUpTo(PivotRows, MaxPivotRows)
    /\ filtered_data = <<>>
    /\ pivot_data = <<>>
    /\ ledger = NoLedger
    /\ exclusions = {}
    /\ ws_map = NoMap
    /\ ws_calc = EmptySheet
    /\ vgo_pivot = NoVgoPivot
    /\ mapping_data = <<>>
    /\ arr_err_be = <<>>
    /\ arr_rpt = <<>>
    /\ blocks = <<>>
    /\ history = NoHistory
    /\ run = NoRun

FilterData ==
    /\ pc = "pivot_filter"
    /\ filtered_data' = _filter_data_for_sheet(marja, ~variant.is_vgo, variant.is_t2,
                                               variant.is_cod)
    /\ pc' = "pivot_create"
    /\ UNCHANGED <<variant, marja, pivot_data, ledger, exclusions, ws_map, ws_calc,
                   vgo_pivot, mapping_data, arr_err_be, arr_rpt, blocks, history, run>>

CreatePivotData ==
    /\ pc = "pivot_create"
    /\ pivot_data' = _create_pivot_data(filtered_data, variant.is_vgo, variant.is_t2)
    /\ pc' = "pivot_done"
    /\ UNCHANGED <<variant, marja, filtered_data, ledger, exclusions, ws_map, ws_calc,
                   vgo_pivot, mapping_data, arr_err_be, arr_rpt, blocks, history, run>>

NextPivot == FilterData \/ CreatePivotData

SpecPivot == InitPivot /\ [][NextPivot]_vars

RowsWithKey(data, key, is_vgo, is_t2) ==
    SelectSeq(data, LAMBDA row : PivotKeyOf(row, is_vgo, is_t2) = key)

RECURSIVE AmountTotal(_)
AmountTotal(data) ==
    IF data = <<>> THEN 0 ELSE safe_float(Head(data).amt, 0) + AmountTotal(Tail(data))

\* C3: once _create_pivot_data has run on the filtered rows, every key that
\* occurs in the rows is in the result exactly once, with the sum of the
\* amounts of the rows having that key; the result has no other key, and its
\* total is the total amount of the rows.
C3_AggregationCorrect ==
    pc = "pivot_done" =>
        LET keys == {PivotKeyOf(filtered_data[i], variant.is_vgo, variant.is_t2) :
                        i \in DOMAIN filtered_data}
        IN  /\ \A key \in keys :
                /\ Cardinality({i \in DOMAIN pivot_data : pivot_data[i].key = key}) = 1
                /\ \A i \in DOMAIN pivot_data :
                      pivot_data[i].key = key =>
                          /\ pivot_data[i].sum =
                                Num(AmountTotal(RowsWithKey(filtered_data, key,
                                                            variant.is_vgo, variant.is_t2)))
                          /\ <<safe_str(pivot_data[i].be_supplier), safe_str(pivot_data[i].cfo),
                               safe_str(pivot_data[i].be_buyer)>> = key
            /\ \A i \in DOMAIN pivot_data : pivot_data[i].key \in keys
            /\ PivotTotal(pivot_data) = AmountTotal(filtered_data)

\* C3 witness: two filtered rows with the same key and non-zero amounts were merged
C3_Witness ==
    /\ pc = "pivot_done"
    /\ Len(filtered_data) = 2
    /\ Len(pivot_data) = 1
    /\ pivot_data[1].sum = Num(800)

(***************************************************************************)
(* The workbook that a calculation sheet is processed in                   *)
(***************************************************************************)
MAP_OPEX_COL == 1
MAP_VGO_COL == 17
MAP_T2_COL == 26
MAP_SECTION_ROW == 1

MaxMarja == 2
MaxMapRows == 2
MaxLedgerRows == 1
MaxBudgetRows == 2

\* a section of the mapping sheet: its name in a merged cell, its headers
\* and its data rows below
WriteRows(g, row, col, rows) ==
    LET written == {p \in (1..Len(rows)) \X (1..MaxRefCol) :
                      p[2] <= Len(rows[p[1]]) /\ rows[p[1]][p[2]] # None}
    IN  [p \in {<<row + q[1] - 1, col + q[2] - 1>> : q \in written} |->
            rows[p[1] - row + 1][p[2] - col + 1]] @@ g

WriteSection(g, col, name, headers, rows) ==
    WriteRows(WriteRow(CellWrite(g, MAP_SECTION_ROW, col, Str(name)), MAP_SECTION_ROW + 1,
                       col, headers),
              MAP_SECTION_ROW + 2, col, rows)

OpexHeaders == <<Str(H_BE_SUP), Str(H_CFO_OPER), Str(H_STAT_OPER), Str(H_PCT)>>

VgoHeaders ==
    <<Str(H_BE_CFO), Str(H_BE_SUP), Str(H_CFO_KV), Str(H_CFO_OPER), Str(H_STAT_PL),
      Str(H_STAT_OPER), Str(H_EXPENSES), Str(H_PCT)>>

T2Headers ==
    <<Str(H_BE_DOG), Str(H_BE_SUP), Str(H_CFO_OPER), Str(H_DOGOVOR), Str(H_STAT_OPER),
      Str(H_EXPENSES), Str(H_PCT)>>

MapRowKinds == {"plain", "zero", "formula", "blank"}

\* a data row of the VGO section, written in the sheet row r
VgoMapRow(kind, r) ==
    CASE kind = "plain" ->
            <<Str("S1C10"), Str("S1"), Str("C10"), Str("OP1"), Str("P1"), Str("A1"), None,
              Num(100)>>
      [] kind = "zero" ->
            <<Str("S1C10"), Str("S1"), Str("C10"), Str("OP2"), Str("P1"), Str("A2"), None,
              Num(0)>>
      [] kind = "formula" ->
            <<Str("=" \o ColName(MAP_VGO_COL + 1) \o ToString(r) \o "&"
                      \o ColName(MAP_VGO_COL + 2) \o ToString(r)),
              Str("S2"), Str("C20"), Str("OP1"), Str("P1"),
              Str("=VLOOKUP(" \o ColName(MAP_VGO_COL + 4) \o ToString(r) \o ")"),
              Num(400),
              Str("=IF(" \o ColName(MAP_VGO_COL + 6) \o ToString(r) \o ")")>>
      [] OTHER -> <<None, None, None, None, None, None, None, None>>

\* a data row of the VGO T2 section, written in the sheet row r
T2MapRow(kind, r) ==
    CASE kind = "plain" ->
            <<Str("S1CT9"), Str("S1"), Str("OP1"), Str("CT9"), Str("A1"), None, Num(100)>>
      [] kind = "zero" ->
            <<Str("S1CT9"), Str("S1"), Str("OP2"), Str("CT9"), Str("A2"), None, Num(0)>>
      [] kind = "formula" ->
            <<Str("=" \o ColName(MAP_T2_COL + 1) \o ToString(r) \o "&"
                      \o ColName(MAP_T2_COL + 3) \o ToString(r)),
              Str("S2"), Str("OP1"), Str("CT9"), Str("A1"), Num(400), None>>
      [] OTHER -> <<None, None, None, None, None, None, None>>

OpexMapRows ==
    {<<Str("S1"), Str("OP1"), Str("A1"), Num(100)>>,
     <<Str("S1"), None, Str("A1"), Num(100)>>,
     <<Str("S1"), Str("OP2"), Str("A2"), Num(0)>>,
     <<Str("S2"), Str("OP1"), Str("A1"), Num(1)>>,
     <<Str("S1"), Str("OP1"), Str("A1"), Num(3)>>}

\* the merged range of a section name over the columns of the section
SectionRange(col, width) == <<MAP_SECTION_ROW, col, MAP_SECTION_ROW, col + width - 1>>

\* the mapping sheet: the OPEX section with the rows opex, the VGO sections
\* with the rows of the kinds, each section only when present
MapSheet(has_opex, opex, has_vgo, kinds) ==
    LET g1 == IF has_opex
              THEN WriteSection(EmptySheet, MAP_OPEX_COL, SEC_OPEX, OpexHeaders, opex)
              ELSE EmptySheet
        g2 == IF has_vgo
              THEN WriteSection(g1, MAP_VGO_COL, SEC_VGO, VgoHeaders,
                                [i \in DOMAIN kinds |->
                                    VgoMapRow(kinds[i], MAP_SECTION_ROW + 1 + i)])
              ELSE g1
        g3 == IF has_vgo
              THEN WriteSection(g2, MAP_T2_COL, SEC_VGO_T2, T2Headers,
                                [i \in DOMAIN kinds |->
                                    T2MapRow(kinds[i], MAP_SECTION_ROW + 1 + i)])
              ELSE g2
    IN  [cells |-> g3,
         merged |-> (IF has_opex THEN {SectionRange(MAP_OPEX_COL, 4)} ELSE {})
                    \cup (IF has_vgo THEN {SectionRange(MAP_VGO_COL, 8),
                                           SectionRange(MAP_T2_COL, 7)} ELSE {})]

MapSheets ==
    {MapSheet(TRUE, <<>>, TRUE, kinds) : kinds \in SeqsUpTo(MapRowKinds, MaxMapRows)}
    \cup {MapSheet(TRUE, <<>>, FALSE, <<>>)}

BudgetMapSheets ==
    {MapSheet(TRUE, opex, TRUE, <<>>) : opex \in SeqsUpTo(OpexMapRows, MaxMapRows)}
    \cup {MapSheet(FALSE, <<>>, TRUE, <<>>)}

\* the rows of sheet MARJA: every supplier has one buyer cost center
CfoOfSupplier(sup) == IF sup = "S1" THEN "C10" ELSE "C20"

AmountOfSupplier(sup) == IF sup = "S1" THEN 400 ELSE 800

SheetMarjaRows ==
    {MarjaRow(Str(sup), Str(CfoOfSupplier(sup)), contract, Str("B1"),
              Num(AmountOfSupplier(sup)), <<Str(SRC_VGO), Str(CLUSTER_KC), buyer>>) :
        sup \in {"S1", "S2"}, contract \in {None, Str("CT9")},
        buyer \in {Str("X"), Str(BUYER_T2)}}

LedgerRow(account, article) ==
    [be |-> Str("L1"), account |-> Str(account), article |-> Str(article),
     cfo |-> Str("OP7"), ref_id |-> Str("CT9"), sum |-> Num(400)]

SheetLedgerRows ==
    {LedgerRow(ACCOUNT_EXPENSE, "A1"), LedgerRow(ACCOUNT_EXPENSE, "AX"),
     LedgerRow("INCOME", "A1")}

\* a VGO calculation sheet before the run: what an earlier run has left
StaleVgoSheet ==
    WriteRow(WriteRow(EmptySheet, 5, 1, <<Str(H_BE_SUP), Str(H_CFO_BUYER), Str(H_BE_BUYER),
                                          Str(H_SUM_ACC)>>),
             6, 1, <<Str("S0"), Str("C00"), Str("B0"), Num(200), None, None, Str("S0C00")>>)

BudgetPivotRows ==
    {<<Str("S1"), Str("C10"), Str("B1"), Num(400)>>,
     <<Str("S1"), Str("C20"), Str("B1"), Num(800)>>,
     <<Str("S2"), Str("C20"), Str("B2"), Num(400)>>,
     <<Str("S1"), Str("C10"), Str("B1"), None>>}

\* a budget calculation sheet: the pivot table A:D with its grand total row
BudgetSheet(rows) ==
    LET g == WriteRows(WriteRow(EmptySheet, 5, 1,
                                <<Str(H_BE_SUP), Str(H_CFO_BUYER), Str(H_BE_BUYER),
                                  Str(H_SUM_ACC)>>),
                       6, 1, rows)
        total == SumSeq([i \in DOMAIN rows |-> safe_float(rows[i][4], 0)])
    IN  WriteRow(g, 6 + Len(rows), 1, <<Str(GRAND_TOTAL), None, None, Num(total)>>)

VgoSheetVariants == {[is_vgo |-> TRUE, is_t2 |-> t2, is_cod |-> FALSE] : t2 \in BOOLEAN}

BudgetSheetVariants == {[is_vgo |-> FALSE, is_t2 |-> t2, is_cod |-> FALSE] : t2 \in BOOLEAN}

InitVgoSheet ==
    /\ variant \in VgoSheetVariants
    /\ marja \in SeqsUpTo(SheetMarjaRows, MaxMarja)
    /\ ledger \in {[present |-> TRUE, rows |-> rows] :
                      rows \in SeqsUpTo(SheetLedgerRows, MaxLedgerRows)}
    /\ exclusions = {"AX"}
    /\ ws_map \in MapSheets
    /\ ws_calc = StaleVgoSheet

InitBudgetSheet ==
    /\ variant \in BudgetSheetVariants
    /\ marja = <<>>
    /\ ledger = [present |-> TRUE, rows |-> <<>>]
    /\ exclusions = {}
    /\ ws_map \in BudgetMapSheets
    /\ ws_calc \in {BudgetSheet(rows) : rows \in SeqsUpTo(BudgetPivotRows, MaxBudgetRows)}

Init ==
    /\ pc = "start"
    /\ InitVgoSheet \/ InitBudgetSheet
    /\ filtered_data = <<>>
    /\ pivot_data = <<>>
    /\ vgo_pivot = NoVgoPivot
    /\ mapping_data = <<>>
    /\ arr_err_be = <<>>
    /\ arr_rpt = <<>>
    /\ blocks = <<>>
    /\ history = NoHistory
    /\ run = NoRun

(***************************************************************************)
(* _process_single_calc_sheet, one action per step of the handler          *)
(***************************************************************************)
MappingSection(is_t2) == IF is_t2 THEN SEC_VGO_T2 ELSE SEC_VGO

\* clears the columns from F on, then recomputes the pivot of a VGO sheet
\* and rewrites its summary table, or reads the pivot of a budget sheet
PreparePivot ==
    /\ pc = "start"
    /\ LET g0 == IF max_col(ws_calc) >= 6
                 THEN ClearRange(ws_calc, 1, max_row(ws_calc), 6, max_col(ws_calc))
                 ELSE ws_calc
           filtered == _filter_data_for_sheet(marja, ~variant.is_vgo, variant.is_t2,
                                              variant.is_cod)
           pivot == IF variant.is_vgo
                    THEN _create_pivot_data(filtered, variant.is_vgo, variant.is_t2)
                    ELSE _read_existing_pivot_data(g0)
       IN  /\ filtered_data' = IF variant.is_vgo THEN filtered ELSE <<>>
           /\ pivot_data' = pivot
           /\ ws_calc' = IF variant.is_vgo /\ pivot # <<>>
                         THEN _write_summary_table(ClearRange(g0, 5, max_row(g0), 1, 4), pivot,
                                                   TRUE, variant.is_vgo, variant.is_t2)
                         ELSE g0
           /\ pc' = IF pivot = <<>> \/ RealData(pivot) = <<>> THEN "done" ELSE "first_block"
    /\ UNCHANGED <<variant, marja, ledger, exclusions, ws_map, vgo_pivot, mapping_data,
                   arr_err_be, arr_rpt, blocks, history, run>>

WriteFirstBlock ==
    /\ pc = "first_block"
    /\ LET mapping_keys == IF variant.is_vgo
                           THEN _get_mapping_keys(ws_map, MappingSection(variant.is_t2),
                                                  variant.is_t2)
                           ELSE {}
       IN  ws_calc' = _write_pivot_to_sheet(ws_calc, pivot_data, START_COL_ACCOUNT,
                                            variant.is_vgo, variant.is_t2, mapping_keys)
    /\ blocks' = IF variant.is_vgo THEN blocks
                 ELSE Append(blocks, BudgetFirstBlock(pivot_data, START_COL_ACCOUNT))
    /\ pc' = IF variant.is_vgo THEN "engine" ELSE "budget_opex"
    /\ UNCHANGED <<variant, marja, filtered_data, pivot_data, ledger, exclusions, ws_map,
                   vgo_pivot, mapping_data, arr_err_be, arr_rpt, history, run>>

CreateMappingTableOpex ==
    /\ pc = "budget_opex"
    /\ LET arr_map_opex == _get_opex_mapping_data(ws_map, SEC_OPEX)
       IN  /\ mapping_data' = arr_map_opex
           /\ ws_calc' = _create_mapping_table_opex(ws_calc, pivot_data, arr_map_opex)
           /\ blocks' = Append(blocks, BudgetOpexBlock(ws_calc, pivot_data, arr_map_opex))
    /\ pc' = "done"
    /\ UNCHANGED <<variant, marja, filtered_data, pivot_data, ledger, exclusions, ws_map,
                   vgo_pivot, arr_err_be, arr_rpt, history, run>>

\* process_vgo_sheet_full, steps 1 to 5: ledger pivot, mapping, queue
EngineQueue ==
    /\ pc = "engine"
    /\ vgo_pivot' = create_vgo_pivot_data(ledger)
    /\ mapping_data' = get_vgo_mapping_data(ws_map, variant.is_t2)
    /\ arr_err_be' = enrich_err_be_with_contracts(
                         find_err_be(ws_calc, mapping_data', variant.is_t2),
                         collect_vgo_marja_data(marja))
    /\ arr_rpt' = <<>>
    /\ pc' = "search"
    /\ UNCHANGED <<variant, marja, filtered_data, pivot_data, ledger, exclusions, ws_map,
                   ws_calc, blocks, history, run>>

\* process_vgo_sheet_full, steps 6 and 7: the ledger search, only with a ledger pivot
EngineSearch ==
    /\ pc = "search"
    /\ IF vgo_pivot.present
       THEN /\ \E order \in SortedOrders(vgo_pivot.rows) :
                  arr_rpt' = search_in_vgo_pivot(arr_err_be, vgo_pivot, order, exclusions)
            /\ mapping_data' = get_vgo_mapping_data(ws_map, variant.is_t2)
       ELSE UNCHANGED <<arr_rpt, mapping_data>>
    /\ pc' = "update"
    /\ UNCHANGED <<variant, marja, filtered_data, pivot_data, ledger, exclusions, ws_map,
                   ws_calc, vgo_pivot, arr_err_be, blocks, history, run>>

\* process_vgo_sheet_full, step 8
EngineUpdate ==
    /\ pc = "update"
    /\ ws_calc' = update_analysis_status(ws_calc, arr_err_be, arr_rpt)
    /\ pc' = "blocks"
    /\ UNCHANGED <<variant, marja, filtered_data, pivot_data, ledger, exclusions, ws_map,
                   vgo_pivot, mapping_data, arr_err_be, arr_rpt, blocks, history, run>>

\* process_vgo_sheet_full, step 9
EngineBlocks ==
    /\ pc = "blocks"
    /\ IF variant.is_t2
       THEN /\ ws_calc' = create_vgo_t2_blocks(ws_calc, pivot_data, mapping_data,
                                               collect_vgo_marja_data_t2(marja))
            /\ blocks' = blocks \o T2Blocks(ws_calc, pivot_data, mapping_data)
       ELSE /\ ws_calc' = create_vgo_second_block(ws_calc, pivot_data, mapping_data)
            /\ blocks' = blocks \o SecondBlocks(ws_calc, pivot_data, mapping_data)
    /\ pc' = "done"
    /\ UNCHANGED <<variant, marja, filtered_data, pivot_data, ledger, exclusions, ws_map,
                   vgo_pivot, mapping_data, arr_err_be, arr_rpt, history, run>>

Next ==
    \/ PreparePivot
    \/ WriteFirstBlock
    \/ CreateMappingTableOpex
    \/ EngineQueue
    \/ EngineSearch
    \/ EngineUpdate
    \/ EngineBlocks

Spec == Init /\ [][Next]_vars

(***************************************************************************)
(* Properties of the sheet pipeline                                        *)
(***************************************************************************)
\* the rows of the first block of the calculation sheet
FirstBlockRowSet == 6..(5 + Len(NotGrandTotal(pivot_data)))

\* the record has a row of the first block with the analysis status "OK"
WrittenOk(rec) ==
    \E r \in FirstBlockRowSet :
        /\ safe_str(Get(ws_calc, r, START_COL_ACCOUNT)) = LookupKey(rec)
        /\ safe_str(Get(ws_calc, r, START_COL_ACCOUNT + 3)) = STATUS_OK

\* the record is in the reconciliation queue
Queued(rec) == \E i \in DOMAIN arr_err_be : arr_err_be[i].key = LookupKey(rec)

\* find_err_be has built the queue of a VGO sheet and no block has been added
QueueBuilt == variant.is_vgo /\ pc \in {"search", "update", "blocks"}

\* C1: on a VGO sheet every pivot record other than the grand total is
\* either written with the status "OK" or in the reconciliation queue, and
\* never both, whatever the mapping sheet holds
C1_KeyCompleteness ==
    QueueBuilt =>
        \A i \in DOMAIN pivot_data :
            safe_str(pivot_data[i].be_supplier) # GRAND_TOTAL =>
                (WrittenOk(pivot_data[i]) # Queued(pivot_data[i]))

NoSumRange == [col |-> 0, first |-> 0, last |-> 0]

\* the range [col, first, last] of a formula =SUM($X1:$X2), NoSumRange for
\* any other text
SumRange(text) ==
    LET colons == {i \in 1..Len(text) : SubSeq(text, i, i) = ":"}
    IN  IF ~StartsWith(text, "=SUM(") \/ SubSeq(text, Len(text), Len(text)) # ")"
           \/ Cardinality(colons) # 1
        THEN NoSumRange
        ELSE LET i == CHOOSE j \in colons : TRUE
                 p1 == coordinate_from_string(RemoveChar(SubSeq(text, 6, i - 1), "$"))
                 p2 == coordinate_from_string(
                           RemoveChar(SubSeq(text, i + 1, Len(text) - 1), "$"))
             IN  IF p1 = NotFound \/ p2 = NotFound THEN NoSumRange
                 ELSE IF p1[2] # p2[2] THEN NoSumRange
                 ELSE [col |-> p1[2], first |-> p1[1], last |-> p2[1]]

\* the sum of the numbers of a column in the rows r1..r2
RECURSIVE NumberSum(_, _, _, _)
NumberSum(g, col, r1, r2) ==
    IF r1 > r2 THEN 0
    ELSE (IF Get(g, r1, col).k = "num" THEN Get(g, r1, col).n ELSE 0)
         + NumberSum(g, col, r1 + 1, r2)

\* the value a spreadsheet shows for the cell: a number, or the sum of the
\* numbers of the range of a SUM formula (the range taken in either direction)
ShownValue(g, cell) ==
    IF cell.k = "num" THEN cell.n
    ELSE IF cell.k = "str" /\ SumRange(cell.s) # NoSumRange
    THEN NumberSum(g, SumRange(cell.s).col,
                   Min({SumRange(cell.s).first, SumRange(cell.s).last}),
                   Max({SumRange(cell.s).first, SumRange(cell.s).last}))
    ELSE 0

CheckCell(b) == Get(ws_calc, b.check_row, b.check_col)

\* C2: when a sheet is finished, the Check total of every block equals the
\* sum of the amounts written in the amount column of the block
C2_CheckEqualsColumnSum ==
    pc = "done" =>
        \A i \in DOMAIN blocks :
            ShownValue(ws_calc, CheckCell(blocks[i]))
                = NumberSum(ws_calc, blocks[i].amount_col, blocks[i].first_row,
                            blocks[i].last_row)

\* the ledger search of process_vgo_sheet_full is over
SearchDone == variant.is_vgo /\ pc \in {"update", "blocks"}

\* the records of arr_rpt that belong to a queue record
ReportsOf(err) ==
    {j \in DOMAIN arr_rpt :
        /\ arr_rpt[j].be = err.be
        /\ arr_rpt[j].cfo = err.cfo
        /\ arr_rpt[j].contract = err.contract}

\* C4: after the ledger search every record of the reconciliation queue has
\* at least one record in the reconciliation result, whatever the ledger holds
C4_NoQueueRecordDropped ==
    SearchDone => \A i \in DOMAIN arr_err_be : ReportsOf(arr_err_be[i]) # {}

\* the weight that the percent normalization prescribes: max(1, round(raw))
ClaimedWeight(raw) == Max({2, round(raw)})

OpexBlockNames == {"budget_opex", "vgo_opex", "t2_opex"}

\* the columns of an OPEX block next to its amount column
WeightCol(b) == b.amount_col - 1

BaseCol(b) == b.amount_col + 1

\* the raw percents of the mapping records that an OPEX row can come from:
\* the records with the supplier, operational cost center and article of the row
RawPercents(b, r) ==
    LET sup == safe_str(Get(ws_calc, r, START_COL_ACCOUNT + 1))
        cfo_oper == safe_str(Get(ws_calc, r, WeightCol(b) - 2))
        stat_oper == safe_str(Get(ws_calc, r, WeightCol(b) - 1))
    IN  CASE b.name = "budget_opex" ->
                {mapping_data[i].percent :
                    i \in {j \in DOMAIN mapping_data :
                              /\ mapping_data[j].be_supplier = sup
                              /\ mapping_data[j].cfo_oper = cfo_oper
                              /\ mapping_data[j].stat_oper = stat_oper}}
          [] b.name = "vgo_opex" ->
                {VgoPercent(mapping_data[i], mapping_data) :
                    i \in {j \in DOMAIN mapping_data :
                              /\ safe_str(mapping_data[j][2]) = sup
                              /\ safe_str(mapping_data[j][4]) = cfo_oper
                              /\ VgoStatOper(mapping_data[j]) = stat_oper}}
          [] OTHER ->
                {safe_float(mapping_data[i][7], 200) :
                    i \in {j \in DOMAIN mapping_data :
                              /\ safe_str(mapping_data[j][2]) = sup
                              /\ safe_str(mapping_data[j][3]) = cfo_oper
                              /\ safe_str(mapping_data[j][5]) = stat_oper}}

\* the row r of the block b applies the prescribed weight of one of its
\* mapping records to the base sum
RowHasClaimedWeight(b, r) ==
    \E raw \in RawPercents(b, r) :
        /\ Get(ws_calc, r, WeightCol(b)).n = ClaimedWeight(raw)
        /\ Get(ws_calc, r, b.amount_col).n
               = MulDiv100(Get(ws_calc, r, BaseCol(b)).n, ClaimedWeight(raw))

\* C5: in every variant the weight of each row of an OPEX block is
\* max(1, round(raw percent)) of its mapping record and the amount of the row
\* is the base sum times that weight over 100
C5_PercentNormalized ==
    pc = "done" =>
        \A i \in DOMAIN blocks :
            blocks[i].name \in OpexBlockNames =>
                \A r \in blocks[i].first_row..blocks[i].last_row :
                    RowHasClaimedWeight(blocks[i], r)

(***************************************************************************)
(* A second run of process_vgo_sheet_full on the sheet of the first run    *)
(***************************************************************************)
\* the statuses of the first block, row by row
FirstBlockStatuses ==
    [i \in 1..Len(NotGrandTotal(pivot_data)) |->
        safe_str(Get(ws_calc, 5 + i, START_COL_ACCOUNT + 3))]

\* process_vgo_sheet_full is called again on the finished sheet, with the
\* same pivot and mapping; the result of the first run is kept in history
EngineAgain ==
    /\ pc = "done"
    /\ variant.is_vgo
    /\ blocks # <<>>
    /\ ~history.taken
    /\ history' = [taken |-> TRUE, statuses |-> FirstBlockStatuses, queue |-> arr_err_be]
    /\ pc' = "engine"
    /\ UNCHANGED <<variant, marja, filtered_data, pivot_data, ledger, exclusions, ws_map,
                   ws_calc, vgo_pivot, mapping_data, arr_err_be, arr_rpt, blocks, run>>

NextRerun ==
    \/ Next
    \/ EngineAgain

SpecRerun == Init /\ [][NextRerun]_vars

\* the second run has built its queue
SecondQueueBuilt == history.taken /\ pc \in {"search", "update", "blocks", "done"}

\* C6: the second run of the engine on the same sheet leaves the statuses of
\* the first run and builds the queue of the first run
C6_RerunIdempotent ==
    SecondQueueBuilt =>
        /\ FirstBlockStatuses = history.statuses
        /\ arr_err_be = history.queue

\* the block has the label "Check" and, next to it, a SUM formula over the
\* amount column from the first to the last written row of the block
HasCheckFormula(b) ==
    /\ Get(ws_calc, b.check_row, b.label_col) = Str(LABEL_CHECK)
    /\ CheckCell(b).k = "str"
    /\ SumRange(CheckCell(b).s)
           = [col |-> b.amount_col, first |-> b.first_row, last |-> b.last_row]

\* C8: when a sheet is finished, every block has its "Check" label and a SUM
\* formula over exactly the written rows of its amount column
C8_CheckIsExactFormula ==
    pc = "done" => \A i \in DOMAIN blocks : HasCheckFormula(blocks[i])

(***************************************************************************)
(* The OPEX block of a budget sheet                                        *)
(***************************************************************************)
BudgetDone == pc = "done" /\ ~variant.is_vgo /\ Len(blocks) = 2

\* the (supplier, buyer) pairs of the pivot records other than the grand total
Pairs ==
    {<<safe_str(pivot_data[i].be_supplier), safe_str(pivot_data[i].be_buyer)>> :
        i \in {j \in DOMAIN pivot_data :
                  safe_str(pivot_data[j].be_supplier) # GRAND_TOTAL}}

\* the sum of the pivot amounts of a pair
PairSum(pair) ==
    SumSeq([i \in DOMAIN pivot_data |->
               IF <<safe_str(pivot_data[i].be_supplier),
                    safe_str(pivot_data[i].be_buyer)>> = pair
               THEN safe_float(pivot_data[i].sum, 0) ELSE 0])

\* supplier, buyer, operational cost center, article and amount of a row of
\* the OPEX block
OpexRowOnSheet(r) ==
    <<safe_str(Get(ws_calc, r, START_COL_ACCOUNT + 1)),
      safe_str(Get(ws_calc, r, START_COL_ACCOUNT + 7)),
      safe_str(Get(ws_calc, r, START_COL_ACCOUNT + 2)),
      safe_str(Get(ws_calc, r, START_COL_ACCOUNT + 3)),
      Get(ws_calc, r, START_COL_ACCOUNT + 5).n>>

OpexBlockRowSet == blocks[2].first_row..blocks[2].last_row

\* the row that a pair and a mapping record give at the weight w
OpexRowOf(pair, m, w) ==
    <<pair[1], pair[2], m.cfo_oper, m.stat_oper, MulDiv100(PairSum(pair), w)>>

\* the mapping records that share the supplier of a pair
SharingSupplier(pair) == {j \in DOMAIN mapping_data : mapping_data[j].be_supplier = pair[1]}

\* the mapping records of a pair that have an operational cost center
WithCostCenter(pair) == {j \in SharingSupplier(pair) : mapping_data[j].cfo_oper # ""}

\* C9 as stated: one row for every pair and every mapping record sharing the
\* supplier, with amount = pair sum x percent / 100, and no other row
C9_AsStated ==
    BudgetDone =>
        \A t \in {OpexRowOnSheet(r) : r \in OpexBlockRowSet}
                 \cup {OpexRowOf(pair, mapping_data[j], mapping_data[j].percent) :
                          pair \in Pairs, j \in DOMAIN mapping_data} :
            Cardinality({r \in OpexBlockRowSet : OpexRowOnSheet(r) = t})
                = Cardinality({x \in Pairs \X DOMAIN mapping_data :
                                  /\ x[2] \in SharingSupplier(x[1])
                                  /\ OpexRowOf(x[1], mapping_data[x[2]],
                                               mapping_data[x[2]].percent) = t})

\* C9: one row for every pair and every mapping record that shares the
\* supplier and has an operational cost center, with amount = pair sum x
\* max(1, round(percent)) / 100, and no other row
C9_BudgetOpexRows ==
    BudgetDone =>
        \A t \in {OpexRowOnSheet(r) : r \in OpexBlockRowSet}
                 \cup {OpexRowOf(pair, mapping_data[j],
                                 ClaimedWeight(mapping_data[j].percent)) :
                          pair \in Pairs, j \in DOMAIN mapping_data} :
            Cardinality({r \in OpexBlockRowSet : OpexRowOnSheet(r) = t})
                = Cardinality({x \in Pairs \X DOMAIN mapping_data :
                                  /\ x[2] \in WithCostCenter(x[1])
                                  /\ OpexRowOf(x[1], mapping_data[x[2]],
                                               ClaimedWeight(mapping_data[x[2]].percent))
                                         = t})

\* a budget sheet with one pair summed over two pivot records, a mapping
\* record without operational cost center and a written row whose percent
\* was normalized
C9_Witness ==
    /\ BudgetDone
    /\ \E pair \in Pairs :
          /\ PairSum(pair) = 1200
          /\ SharingSupplier(pair) # WithCostCenter(pair)
          /\ \E j \in WithCostCenter(pair) :
                mapping_data[j].percent # ClaimedWeight(mapping_data[j].percent)
    /\ OpexBlockRowSet # {}

(***************************************************************************)
(* Specification SpecLedger: the ledger search of process_vgo_sheet_full   *)
(* (create_vgo_pivot_data, enrich_err_be_with_contracts,                   *)
(* search_in_vgo_pivot) on a ledger with more groups than head(5) keeps.   *)
(***************************************************************************)
MaxLedgerSlots == 6

LedgerEntry(account, article, ref, amt) ==
    [be |-> Str("L1"), account |-> Str(account), article |-> Str(article),
     cfo |-> Str("OP7"), ref_id |-> Str(ref), sum |-> Num(amt)]

SlotKinds == {"none", "low", "split"}

SlotAmount(i) == 400 * ((i + 1) \div 2)

\* the ledger rows of slot i: no row, one EXPENSE row of contract CT9, or two
\* rows of one group
SlotRows(i, kind) ==
    CASE kind = "none" -> <<>>
      [] kind = "low" ->
            <<LedgerEntry(ACCOUNT_EXPENSE, "A" \o ToString(i), "CT9", SlotAmount(i))>>
      [] kind = "split" ->
            <<LedgerEntry(ACCOUNT_EXPENSE, "A" \o ToString(i), "CT9", SlotAmount(i)),
              LedgerEntry(ACCOUNT_EXPENSE, "A" \o ToString(i), "CT9", SlotAmount(i))>>

RECURSIVE SlotLedger(_, _)
SlotLedger(kinds, i) ==
    IF i > MaxLedgerSlots THEN <<>> ELSE SlotRows(i, kinds[i]) \o SlotLedger(kinds, i + 1)

\* rows of another account, of another contract and of an excluded article
OtherLedgerRows ==
    <<LedgerEntry("INCOME", "A1", "CT9", 4000), LedgerEntry(ACCOUNT_EXPENSE, "A2", "CT8", 4000),
      LedgerEntry(ACCOUNT_EXPENSE, "AX", "CT9", 4000)>>

\* none of them, all of them, or all but the INCOME row
OtherRowChoices == {<<>>, OtherLedgerRows, Tail(OtherLedgerRows)}

LedgerSheets ==
    {[present |-> TRUE, rows |-> other \o SlotLedger(kinds, 1)] :
        kinds \in [1..MaxLedgerSlots -> SlotKinds], other \in OtherRowChoices}

LedgerMarja ==
    {<<MarjaRow(Str("S1"), Str("C10"), Str("CT9"), Str("B1"), Num(400),
                <<Str(SRC_VGO), Str(CLUSTER_KC), Str("X")>>)>>,
     <<MarjaRow(Str("S1"), Str("C10"), Str("CT9"), Str("B1"), Num(400),
                <<Str(SRC_VGO), Str(CLUSTER_KC), Str("X")>>),
       MarjaRow(Str("S2"), Str("C20"), Str("CT8"), Str("B2"), Num(400),
                <<Str(SRC_VGO), Str(CLUSTER_KC), Str("X")>>)>>}

\* the queue as find_err_be leaves it: no contract yet
LedgerQueues ==
    {<<[be |-> "S1", cfo |-> "C10", key |-> "S1C10", contract |-> "", row |-> 6]>>,
     <<[be |-> "S1", cfo |-> "C10", key |-> "S1C10", contract |-> "", row |-> 6],
       [be |-> "S3", cfo |-> "C30", key |-> "S3C30", contract |-> "", row |-> 7]>>}

InitLedger ==
    /\ pc = "ledger_start"
    /\ variant = [is_vgo |-> TRUE, is_t2 |-> FALSE, is_cod |-> FALSE]
    /\ marja \in LedgerMarja
    /\ ledger \in LedgerSheets
    /\ exclusions = {"AX"}
    /\ arr_err_be \in LedgerQueues
    /\ ws_map = NoMap
    /\ ws_calc = EmptySheet
    /\ filtered_data = <<>>
    /\ pivot_data = <<>>
    /\ vgo_pivot = NoVgoPivot
    /\ mapping_data = <<>>
    /\ arr_rpt = <<>>
    /\ blocks = <<>>
    /\ history = NoHistory
    /\ run = NoRun

\* process_vgo_sheet_full, step 1
LedgerPivot ==
    /\ pc = "ledger_start"
    /\ vgo_pivot' = create_vgo_pivot_data(ledger)
    /\ pc' = "ledger_enrich"
    /\ UNCHANGED <<variant, marja, filtered_data, pivot_data, ledger, exclusions, ws_map,
                   ws_calc, mapping_data, arr_err_be, arr_rpt, blocks, history, run>>

\* process_vgo_sheet_full, steps 4 and 5
LedgerEnrich ==
    /\ pc = "ledger_enrich"
    /\ arr_err_be' = enrich_err_be_with_contracts(arr_err_be, collect_vgo_marja_data(marja))
    /\ pc' = "ledger_search"
    /\ UNCHANGED <<variant, marja, filtered_data, pivot_data, ledger, exclusions, ws_map,
                   ws_calc, vgo_pivot, mapping_data, arr_rpt, blocks, history, run>>

\* process_vgo_sheet_full, step 6
LedgerSearch ==
    /\ pc = "ledger_search"
    /\ IF vgo_pivot.present
       THEN \E order \in SortedOrders(vgo_pivot.rows) :
                arr_rpt' = search_in_vgo_pivot(arr_err_be, vgo_pivot, order, exclusions)
       ELSE UNCHANGED arr_rpt
    /\ pc' = "ledger_done"
    /\ UNCHANGED <<variant, marja, filtered_data, pivot_data, ledger, exclusions, ws_map,
                   ws_calc, vgo_pivot, mapping_data, arr_err_be, blocks, history, run>>

NextLedger ==
    \/ LedgerPivot
    \/ LedgerEnrich
    \/ LedgerSearch

SpecLedger == InitLedger /\ [][NextLedger]_vars

(***************************************************************************)
(* Properties of the ledger search                                         *)
(***************************************************************************)
LedgerDone == pc = "ledger_done" /\ vgo_pivot.present

\* the EXPENSE rows of the ledger sheet
ExpenseRowSet == {i \in DOMAIN ledger.rows : safe_str(ledger.rows[i].account) = ACCOUNT_EXPENSE}

\* the ledger groups (business unit, cost center, article, reference)
LedgerGroups ==
    {<<safe_str(ledger.rows[i].be), safe_str(ledger.rows[i].cfo),
       safe_str(ledger.rows[i].article), safe_str(ledger.rows[i].ref_id)>> : i \in ExpenseRowSet}

RECURSIVE RowSetSum(_)
RowSetSum(S) ==
    IF S = {} THEN 0
    ELSE LET i == CHOOSE x \in S : TRUE
         IN  safe_float(ledger.rows[i].sum, 0) + RowSetSum(S \ {i})

\* the summed amount of a ledger group
GroupTotal(grp) ==
    RowSetSum({i \in ExpenseRowSet :
                  <<safe_str(ledger.rows[i].be), safe_str(ledger.rows[i].cfo),
                    safe_str(ledger.rows[i].article), safe_str(ledger.rows[i].ref_id)>> = grp})

\* the groups of the contract whose article is not excluded
Eligible(contract) == {grp \in LedgerGroups : grp[4] = contract /\ grp[3] \notin exclusions}

\* the records of arr_rpt that belong to a queue record
RecordsOf(err) ==
    {j \in DOMAIN arr_rpt : arr_rpt[j].be = err.be /\ arr_rpt[j].cfo = err.cfo}

\* the ledger rows attached to a queue record
Attached(err) == {j \in RecordsOf(err) : arr_rpt[j].article # STATUS_NOT_FOUND}

\* the groups that the attached rows show
AttachedGroups(err) ==
    {grp \in Eligible(err.contract) :
        \E j \in Attached(err) : /\ arr_rpt[j].cfo_oper = grp[2]
                                 /\ arr_rpt[j].article = grp[3]
                                 /\ arr_rpt[j].sum = GroupTotal(grp)}

\* C10: after the search, the rows attached to a queue record with a contract
\* are min(5, n) of the n EXPENSE groups of that contract with a non-excluded
\* article: one row per group, with the group's summed amount, no unattached
\* group has a larger sum than an attached one, and each row has the status
\* "Est v vyverke VGO"
C10_LedgerSearchTop5 ==
    LedgerDone =>
        \A i \in DOMAIN arr_err_be :
            arr_err_be[i].contract # "" =>
                /\ Cardinality(Attached(arr_err_be[i]))
                       = Min2(5, Cardinality(Eligible(arr_err_be[i].contract)))
                /\ Cardinality(AttachedGroups(arr_err_be[i]))
                       = Cardinality(Attached(arr_err_be[i]))
                /\ \A j \in Attached(arr_err_be[i]) :
                       /\ arr_rpt[j].status = STATUS_FOUND
                       /\ arr_rpt[j].contract = arr_err_be[i].contract
                       /\ \E grp \in AttachedGroups(arr_err_be[i]) :
                              /\ arr_rpt[j].cfo_oper = grp[2]
                              /\ arr_rpt[j].article = grp[3]
                              /\ arr_rpt[j].sum = GroupTotal(grp)
                /\ \A a \in AttachedGroups(arr_err_be[i]) :
                       \A u \in Eligible(arr_err_be[i].contract) \ AttachedGroups(arr_err_be[i]) :
                           GroupTotal(a) >= GroupTotal(u)

\* a search that had more than five groups to choose from, among them a group
\* of two ledger rows, next to an excluded article, an INCOME row and a row of
\* another contract
C10_Witness ==
    /\ LedgerDone
    /\ \E i \in DOMAIN arr_err_be :
          /\ arr_err_be[i].contract = "CT9"
          /\ Cardinality(Eligible("CT9")) > 5
          /\ Cardinality(Attached(arr_err_be[i])) = 5
          /\ \E a \in AttachedGroups(arr_err_be[i]) :
                Cardinality({r \in ExpenseRowSet : safe_str(ledger.rows[r].article) = a[3]}) = 2
    /\ \E r \in ExpenseRowSet : safe_str(ledger.rows[r].article) \in exclusions
    /\ \E r \in DOMAIN ledger.rows : safe_str(ledger.rows[r].account) # ACCOUNT_EXPENSE
    /\ \E r \in ExpenseRowSet : safe_str(ledger.rows[r].ref_id) = "CT8"

(***************************************************************************)
(* CreatePreviewDataProcessor.process: the block-1 run                     *)
(***************************************************************************)
M_BUYER == "Naimenovanie pokupatelya"
M_SUPPLIER == "Kod_Postavshchik"
M_CONTRACT == "No invest. Dogovora  PAO ili DZO"
M_BE_LOAD == "Kod_BE Zagruzka"
M_CFO_BUYER == "CFO pokupatelya_CFO pokupatelya"
M_BE_LOAD_NAME == "Naimenovanie_BE Zagruzka"
M_TOTAL == "Nakopitelnyy Itog_Raskhody postavshchika"
H_SOURCE == "Istochnik dannyh dlya opredeleniya CFO i stati"
H_CLUSTER == "Klaster"
H_BE_SUP_NAME == "BE postavshchika + Naimenovanie"
SEC_CAPEX == "Informaciya o CFO i statye iz byudzheta CAPEX"
SEC_COD == "Informaciya o klastere COD"
UCN == "UCN"
BE_00902 == "00902"
ERR_MARJA == "Oshibka zagruzki dannyh Marja"
ERR_VGO == "Oshibka zagruzki dannyh VGO"
ERR_CFO == "Est CFO s dlinoy menshe 3 simvolov"
ERR_CELL == "Row or column values must be at least 1"
ERR_FILE == "Fayl ne nayden"

\* MarjaColumnInfo()
NoMarjaCols ==
    [supplier_code |-> 0, contract_number |-> 0, be_load_code |-> 0, cfo_buyer |-> 0,
     source_data |-> 0, buyer_name |-> 0, be_load_name |-> 0, cluster |-> 0]

\* str.isdigit()
IsDigits(x) == Len(x) > 0 /\ \A i \in 1..Len(x) : IsDigit(SubSeq(x, i, i))

\* the column of the first header "BE postavshchika" or "BE" in the three
\* rows from the section name on, the section column without one
BeColumn(g, section_row, section_col) ==
    LET hits == {p \in DOMAIN g :
                    /\ p[1] \in section_row..(section_row + 2)
                    /\ p[2] \in section_col..(section_col + 19)
                    /\ Truthy(g[p])
                    /\ \/ Contains(CellStr(g[p]), H_BE_SUP)
                       \/ Strip(CellStr(g[p])) = H_BE}
    IN  IF hits = {}
        THEN section_col
        ELSE LET r == Min({p[1] : p \in hits})
             IN  Min({p[2] : p \in {q \in hits : q[1] = r}})

\* the first row below the section name with a number in the BE column,
\* the second row below without one
BeDataStart(g, section_row, be_col) ==
    LET rows == {r \in (section_row + 1)..(section_row + 4) :
                    /\ Truthy(Get(g, r, be_col))
                    /\ IsDigits(Strip(CellStr(Get(g, r, be_col))))}
    IN  IF rows = {} THEN section_row + 2 ELSE Min(rows)

\* the values of the BE column from the first data row to the first blank
_get_mapping_be_set(g, section_name) ==
    LET found == find_value(g, section_name, FALSE, 1, 1, 0, 0)
    IN  IF found = NotFound
        THEN {}
        ELSE LET be_col == BeColumn(g, found[1], found[2])
                 first == BeDataStart(g, found[1], be_col)
                 blanks == {r \in first..max_row(g) :
                               \/ Get(g, r, be_col) = None
                               \/ Strip(CellStr(Get(g, r, be_col))) = ""}
                 last == IF blanks = {} THEN max_row(g) ELSE Min(blanks) - 1
             IN  {safe_str(Get(g, r, be_col)) : r \in first..last}

\* search_arr_col: the titles found in the columns start_col..end_col
search_arr_col(g, arr_title, start_col, end_col) ==
    SelectSeq(arr_title,
              LAMBDA title : find_value(g, title, TRUE, 1, start_col, max_row(g), end_col)
                                 # NotFound)

\* the column of a header of the MARJA sheet, the old value without it
MarjaColumn(g, search_text, old) ==
    IF find_value(g, search_text, TRUE, 1, 1, 0, 0) = NotFound
    THEN old
    ELSE find_value(g, search_text, TRUE, 1, 1, 0, 0)[2]

\* the key columns of the MARJA sheet
LocateMarjaColumns(g, cols) ==
    [cols EXCEPT !.supplier_code = MarjaColumn(g, M_SUPPLIER, @),
                 !.contract_number = MarjaColumn(g, M_CONTRACT, @),
                 !.be_load_code = MarjaColumn(g, M_BE_LOAD, @),
                 !.cfo_buyer = MarjaColumn(g, M_CFO_BUYER, @)]

\* the column after the last data column of the MARJA sheet
NewMarjaColumn(g) ==
    IF find_value(g, M_TOTAL, TRUE, 1, 1, 0, 0) = NotFound
    THEN max_col(g) + 1
    ELSE find_value(g, M_TOTAL, TRUE, 1, 1, 0, 0)[2] + 1

\* the column of the data source: "iz byudzheta" for a supplier of the
\* CAPEX mapping, "iz otcheta VGO" for any other
SourceColumn(g, rows, col, supplier_col, be_set) ==
    [p \in {<<r, col>> : r \in rows} |->
        Str(IF safe_str(Get(g, p[1], supplier_col)) \in be_set THEN SRC_BUDGET ELSE SRC_VGO)]
    @@ g

\* the column that joins the supplier code and the contract number
ConcatColumn(g, rows, col, supplier_col, contract_col) ==
    [p \in {<<r, col>> : r \in rows} |->
        Str(safe_str(Get(g, p[1], supplier_col)) \o safe_str(Get(g, p[1], contract_col)))]
    @@ g

\* the cluster column: "COD" for a BE of the COD mapping, "KC" for any other
ClusterColumn(g, rows, col, be_load_col, be_set) ==
    [p \in {<<r, col>> : r \in rows} |->
        Str(IF safe_str(Get(g, p[1], be_load_col)) \in be_set THEN CLUSTER_COD ELSE CLUSTER_KC)]
    @@ g

\* the four columns that _create_marja_formulas adds behind the data; a
\* key column that was not found makes ws.cell raise as soon as a data row
\* is read
WriteMarjaColumns(g, map_g, cols, header_row, rows, new_col) ==
    IF rows # {} /\ cols.supplier_code = 0
    THEN [ws |-> WriteRow(g, header_row, new_col, <<Str("*"), Str(H_SOURCE)>>),
          cols |-> [cols EXCEPT !.source_data = new_col + 1], raised |-> TRUE]
    ELSE IF rows # {} /\ cols.contract_number = 0
    THEN [ws |-> WriteRow(SourceColumn(g, rows, new_col + 1, cols.supplier_code,
                                       _get_mapping_be_set(map_g, SEC_CAPEX)),
                          header_row, new_col, <<Str("*"), Str(H_SOURCE), Str("*")>>),
          cols |-> [cols EXCEPT !.source_data = new_col + 1], raised |-> TRUE]
    ELSE IF rows # {} /\ cols.be_load_code = 0
    THEN [ws |-> WriteRow(ConcatColumn(SourceColumn(g, rows, new_col + 1, cols.supplier_code,
                                                    _get_mapping_be_set(map_g, SEC_CAPEX)),
                                       rows, new_col + 2, cols.supplier_code,
                                       cols.contract_number),
                          header_row, new_col,
                          <<Str("*"), Str(H_SOURCE), Str("*"), Str(H_CLUSTER)>>),
          cols |-> [cols EXCEPT !.source_data = new_col + 1, !.cluster = new_col + 3],
          raised |-> TRUE]
    ELSE [ws |-> WriteRow(ClusterColumn(ConcatColumn(SourceColumn(g, rows, new_col + 1,
                                                                  cols.supplier_code,
                                                                  _get_mapping_be_set(map_g, SEC_CAPEX)),
                                                     rows, new_col + 2, cols.supplier_code,
                                                     cols.contract_number),
                                        rows, new_col + 3, cols.be_load_code,
                                        _get_mapping_be_set(map_g, SEC_COD)),
                          header_row, new_col,
                          <<Str("*"), Str(H_SOURCE), Str("*"), Str(H_CLUSTER)>>),
          cols |-> [cols EXCEPT !.source_data = new_col + 1, !.cluster = new_col + 3],
          raised |-> FALSE]

\* _create_marja_formulas: returns at once without the mapping sheet, else
\* locates the key columns and, with the CAPEX section of the mapping, adds
\* the source and cluster columns
_create_marja_formulas(g, has_map, map_g, cols, header_row) ==
    IF ~has_map
    THEN [ws |-> g, cols |-> cols, raised |-> FALSE]
    ELSE IF find_value(map_g, SEC_CAPEX, FALSE, 1, 1, 0, 0) = NotFound
    THEN [ws |-> g, cols |-> LocateMarjaColumns(g, cols), raised |-> FALSE]
    ELSE IF Len(search_arr_col(map_g, <<H_BE_SUP, H_BE_SUP_NAME>>,
                               find_value(map_g, SEC_CAPEX, FALSE, 1, 1, 0, 0)[2],
                               find_value(map_g, SEC_CAPEX, FALSE, 1, 1, 0, 0)[2] + 20)) < 2
    THEN [ws |-> g, cols |-> LocateMarjaColumns(g, cols), raised |-> FALSE]
    ELSE WriteMarjaColumns(g, map_g, LocateMarjaColumns(g, cols), header_row,
                           (header_row + 1)..max_row(g), NewMarjaColumn(g))

\* the rows of the buyer T2
T2Rows(g, rows, buyer_col) == {r \in rows : Get(g, r, buyer_col) = Str(BUYER_T2)}

\* the cell writes of _process_t2_clients in the rows it gets through; the
\* row raise_row (0 for none) is left before its supplier code is rewritten
ProcessT2Rows(g, cols, rows, buyer_col, be_load_col, raise_row) ==
    [p \in {<<r, cols.be_load_code>> :
                r \in {x \in T2Rows(g, rows, buyer_col) :
                          cols.be_load_code > 0 /\ Get(g, x, be_load_col) # Str(CLUSTER_KC)}} |->
        Str(BE_00902)]
    @@ [p \in {<<r, cols.contract_number>> :
                r \in {x \in T2Rows(g, rows, buyer_col) :
                          /\ cols.contract_number > 0
                          /\ ~Truthy(Get(g, x, cols.contract_number))}} |->
        Str(UCN)]
    @@ [p \in {<<r, cols.supplier_code>> :
                r \in {x \in rows : cols.supplier_code > 0 /\ x # raise_row}} |->
        Str(safe_str(Get(g, p[1], cols.supplier_code)))]
    @@ g

\* arr_cfo_t2: supplier, contract and cost center of the T2 rows
RECURSIVE T2Records(_, _, _, _, _)
T2Records(g, cols, buyer_col, row, last) ==
    IF row > last
    THEN <<>>
    ELSE (IF Get(g, row, buyer_col) = Str(BUYER_T2)
          THEN <<[supplier_code |-> safe_str(Get(g, row, cols.supplier_code)),
                  contract |-> safe_str(Get(g, row, cols.contract_number)),
                  cfo |-> safe_str(Get(g, row, cols.cfo_buyer))]>>
          ELSE <<>>) \o T2Records(g, cols, buyer_col, row + 1, last)

\* the loop of _process_t2_clients: reading a T2 row raises when a key
\* column was never located (ws.cell with column 0)
T2Loop(g, cols, rows, first_row, buyer_col, be_load_col) ==
    IF /\ T2Rows(g, rows, buyer_col) # {}
       /\ (cols.supplier_code = 0 \/ cols.contract_number = 0 \/ cols.cfo_buyer = 0)
    THEN [ws |-> ProcessT2Rows(g, cols,
                               {r \in rows : r <= Min(T2Rows(g, rows, buyer_col))},
                               buyer_col, be_load_col, Min(T2Rows(g, rows, buyer_col))),
          cols |-> [cols EXCEPT !.buyer_name = buyer_col, !.be_load_name = be_load_col],
          arr_cfo_t2 |-> <<>>, raised |-> TRUE]
    ELSE [ws |-> ProcessT2Rows(g, cols, rows, buyer_col, be_load_col, 0),
          cols |-> [cols EXCEPT !.buyer_name = buyer_col, !.be_load_name = be_load_col],
          arr_cfo_t2 |-> T2Records(ProcessT2Rows(g, cols, rows, buyer_col, be_load_col, 0),
                                   cols, buyer_col, first_row, max_row(g)),
          raised |-> FALSE]

\* _process_t2_clients
_process_t2_clients(g, cols, header_row) ==
    IF \/ find_value(g, M_BUYER, FALSE, 1, 1, 0, 0) = NotFound
       \/ find_value(g, M_BE_LOAD_NAME, TRUE, 1, 1, 0, 0) = NotFound
    THEN [ws |-> g, cols |-> cols, arr_cfo_t2 |-> <<>>, raised |-> FALSE]
    ELSE T2Loop(g, cols, (header_row + 1)..max_row(g), header_row + 1,
                find_value(g, M_BUYER, FALSE, 1, 1, 0, 0)[2],
                find_value(g, M_BE_LOAD_NAME, TRUE, 1, 1, 0, 0)[2])

\* _validate_cfo: False when a row below the header has a buyer cost center
\* of fewer than 3 characters; no row is looked at while the cost-center
\* column is not known
_validate_cfo(g, cols, header_row) ==
    \/ cols.cfo_buyer = 0
    \/ \A r \in (header_row + 1)..max_row(g) : Len(safe_str(Get(g, r, cols.cfo_buyer))) >= 3

\* _process_calculation_sheets: the number of calculation sheets handed to
\* _process_single_calc_sheet
CALC_SHEETS == 8

_process_calculation_sheets(g) ==
    IF find_value(g, H_CLUSTER, FALSE, 1, 1, 0, 0) = NotFound THEN 0 ELSE CALC_SHEETS

(***************************************************************************)
(* Specification SpecRun: one call of process() on a workbook with or      *)
(* without the mapping sheet and a Marja file of up to MaxRunRows rows.    *)
(***************************************************************************)
MaxRunRows == 2

\* a data row of the Marja file: buyer, supplier code, contract, BE code,
\* buyer cost center, BE name, amount
RunMarjaRows ==
    {<<Str("X"), Str("S1"), Str("CT9"), Str("B1"), cfo, Str(CLUSTER_KC), Num(400)>> :
        cfo \in {Str("C10"), Str("12"), Num(24)}}
    \cup {<<Str(BUYER_T2), Str("S2"), None, Str("B2"), cfo, Str(CLUSTER_COD), Num(400)>> :
        cfo \in {Str("C10"), Str("12"), Num(24)}}

\* the table of the Marja file from its header row on
MarjaFileSheet(rows) ==
    WriteRows(WriteRow(EmptySheet, 1, 1,
                       <<Str("Pokupatel"), Str(M_SUPPLIER), Str(M_CONTRACT), Str(M_BE_LOAD),
                         Str(M_CFO_BUYER), Str(M_BE_LOAD_NAME),
                         Str(M_TOTAL \o " na vypolnenie rabot po dogovoru")>>),
              2, 1, rows)

MarjaFiles ==
    {[ok |-> ok, sheet |-> MarjaFileSheet(rows)] :
        ok \in BOOLEAN, rows \in SeqsUpTo(RunMarjaRows, MaxRunRows)}

\* a mapping sheet with the COD section only, and one with the CAPEX
\* section next to it
RunMapCod ==
    WriteSection(EmptySheet, 5, SEC_COD, <<Str(H_BE)>>, <<<<Str("B1")>>>>)

RunMapCapex ==
    WriteSection(RunMapCod, 1, SEC_CAPEX, <<Str(H_BE_SUP), Str(H_BE_SUP_NAME)>>,
                 <<<<Str("S1"), Str("S1 name")>>>>)

\* the main workbook: <<it can be opened, it can be written>>
WorkbookFiles == {<<TRUE, TRUE>>, <<TRUE, FALSE>>, <<FALSE, TRUE>>}

InitRun ==
    /\ pc = "run_start"
    /\ \E file \in MarjaFiles, vgo_ok \in BOOLEAN, has_map \in BOOLEAN, io \in WorkbookFiles :
          run = [block |-> 1, macros_file_ok |-> io[1], save_ok |-> io[2],
                 marja_file |-> file, vgo_file_ok |-> vgo_ok, has_map |-> has_map,
                 ws_marja |-> EmptySheet, marja_cols |-> NoMarjaCols, start_row_tbl_mrj |-> 1,
                 arr_cfo_t2 |-> <<>>, progress |-> <<>>, success |-> FALSE, errors |-> <<>>,
                 calc_sheets |-> 0, opens |-> 0, saves |-> 0, saved |-> FALSE,
                 closed |-> FALSE]
    /\ ws_map \in {[cells |-> g, merged |-> {}] : g \in {EmptySheet, RunMapCod, RunMapCapex}}
    /\ run.has_map <=> ws_map # NoMap
    /\ variant = NoVariant
    /\ marja = <<>>
    /\ ledger = NoLedger
    /\ exclusions = {}
    /\ ws_calc = EmptySheet
    /\ filtered_data = <<>>
    /\ pivot_data = <<>>
    /\ vgo_pivot = NoVgoPivot
    /\ mapping_data = <<>>
    /\ arr_err_be = <<>>
    /\ arr_rpt = <<>>
    /\ blocks = <<>>
    /\ history = NoHistory

\* what a step of process() leaves alone
RunFrame ==
    UNCHANGED <<variant, marja, filtered_data, pivot_data, ledger, exclusions, ws_map,
                ws_calc, vgo_pivot, mapping_data, arr_err_be, arr_rpt, blocks, history>>

\* process, steps 1 to 3: the workbook is opened; ExcelHandler.open raises
\* for a file that is missing or of another format
RunOpen ==
    /\ pc = "run_start"
    /\ IF run.macros_file_ok
       THEN /\ run' = [run EXCEPT !.progress = @ \o <<0, 5, 8, 10>>, !.opens = @ + 1]
            /\ pc' = "run_load_marja"
       ELSE /\ run' = [run EXCEPT !.progress = @ \o <<0, 5>>, !.opens = @ + 1,
                                  !.errors = @ \o <<ERR_FILE>>, !.closed = TRUE]
            /\ pc' = "run_end"
    /\ RunFrame

\* a step 4 that saves the workbook as soon as sheet MARJA is filled
RunLoadMarjaSaving ==
    /\ pc = "run_load_marja"
    /\ run' = [run EXCEPT !.progress = @ \o <<15>>,
                          !.ws_marja = CellWrite(run.marja_file.sheet, 1, 1, Str(M_BUYER)),
                          !.saves = @ + 1]
    /\ pc' = "run_load_vgo"
    /\ RunFrame

\* process, step 4: _load_marja_data copies the table to the sheet MARJA and
\* names its first column; a file that cannot be read ends the run
RunLoadMarja ==
    /\ pc = "run_load_marja"
    /\ IF run.marja_file.ok
       THEN /\ run' = [run EXCEPT !.progress = @ \o <<15>>,
                                  !.ws_marja = CellWrite(run.marja_file.sheet, 1, 1, Str(M_BUYER)),
                                  !.start_row_tbl_mrj = 1]
            /\ pc' = "run_load_vgo"
       ELSE /\ run' = [run EXCEPT !.progress = @ \o <<15>>,
                                  !.errors = @ \o <<ERR_MARJA>>,
                                  !.closed = TRUE]
            /\ pc' = "run_end"
    /\ RunFrame

\* a step 5 that goes on whatever _load_vgo_data returns
RunLoadVgoIgnored ==
    /\ pc = "run_load_vgo"
    /\ run' = [run EXCEPT !.progress = @ \o <<25>>]
    /\ pc' = "run_formulas"
    /\ RunFrame

\* process, step 5
RunLoadVgo ==
    /\ pc = "run_load_vgo"
    /\ IF run.vgo_file_ok
       THEN /\ run' = [run EXCEPT !.progress = @ \o <<25>>]
            /\ pc' = "run_formulas"
       ELSE /\ run' = [run EXCEPT !.progress = @ \o <<25>>,
                                  !.errors = @ \o <<ERR_VGO>>,
                                  !.closed = TRUE]
            /\ pc' = "run_end"
    /\ RunFrame

\* the run after a step that changed the sheet MARJA: an exception of the
\* step goes to the except clause of process
StepDone(r, percent, res) ==
    IF res.raised
    THEN [r EXCEPT !.progress = @ \o <<percent>>, !.ws_marja = res.ws, !.marja_cols = res.cols,
                   !.errors = @ \o <<ERR_CELL>>, !.closed = TRUE]
    ELSE [r EXCEPT !.progress = @ \o <<percent>>, !.ws_marja = res.ws, !.marja_cols = res.cols]

\* process, step 6
RunMarjaFormulas ==
    /\ pc = "run_formulas"
    /\ run' = StepDone(run, 35,
                       _create_marja_formulas(run.ws_marja, run.has_map, ws_map.cells,
                                              run.marja_cols, run.start_row_tbl_mrj))
    /\ pc' = IF run'.closed THEN "run_end" ELSE "run_t2"
    /\ RunFrame

T2Done(r, res) == [StepDone(r, 40, res) EXCEPT !.arr_cfo_t2 = res.arr_cfo_t2]

\* process, step 7
RunT2Clients ==
    /\ pc = "run_t2"
    /\ run' = T2Done(run, _process_t2_clients(run.ws_marja, run.marja_cols,
                                              run.start_row_tbl_mrj))
    /\ pc' = IF run'.closed THEN "run_end" ELSE "run_validate"
    /\ RunFrame

\* process, step 8: a short cost center ends the run with an error
RunValidateCfo ==
    /\ pc = "run_validate"
    /\ IF _validate_cfo(run.ws_marja, run.marja_cols, run.start_row_tbl_mrj)
       THEN /\ run' = [run EXCEPT !.progress = @ \o <<45>>]
            /\ pc' = "run_sheets"
       ELSE /\ run' = [run EXCEPT !.progress = @ \o <<45>>,
                                  !.errors = @ \o <<ERR_CFO>>,
                                  !.closed = TRUE]
            /\ pc' = "run_end"
    /\ RunFrame

\* a progress of the sheets that starts again from 5
SheetProgressFromStart(n) == [i \in 1..n |-> 5 * i]

\* progress of _process_calculation_sheets: 50 + 5 * iter_idx for each sheet
SheetProgress(n) == [i \in 1..n |-> 50 + 5 * i]

\* process, step 9
RunCalcSheets ==
    /\ pc = "run_sheets"
    /\ run' = [run EXCEPT !.progress = @ \o <<50>>
                              \o SheetProgress(_process_calculation_sheets(run.ws_marja)),
                          !.calc_sheets = _process_calculation_sheets(run.ws_marja)]
    /\ pc' = "run_save"
    /\ RunFrame

\* process, steps 10 to 12: the workbook is saved and the run succeeds;
\* a save that raises ends the run in the except clause
RunSave ==
    /\ pc = "run_save"
    /\ IF run.save_ok
       THEN run' = [run EXCEPT !.progress = @ \o <<90, 93, 95, 100>>, !.saves = @ + 1,
                               !.saved = TRUE, !.success = TRUE, !.closed = TRUE]
       ELSE run' = [run EXCEPT !.progress = @ \o <<90, 93, 95>>, !.saves = @ + 1,
                               !.errors = @ \o <<ERR_FILE>>, !.closed = TRUE]
    /\ pc' = "run_end"
    /\ RunFrame

NextRun ==
    \/ RunOpen
    \/ RunLoadMarja
    \/ RunLoadVgo
    \/ RunMarjaFormulas
    \/ RunT2Clients
    \/ RunValidateCfo
    \/ RunCalcSheets
    \/ RunSave

SpecRun == InitRun /\ [][NextRun]_vars

(***************************************************************************)
(* Properties of the block-1 run                                           *)
(***************************************************************************)
RunEnded == pc = "run_end"

\* the data rows of the Marja file whose buyer cost center has fewer than 3
\* characters
ShortCfoRows ==
    {r \in 2..max_row(run.marja_file.sheet) :
        /\ Get(run.marja_file.sheet, r, 5) # None
        /\ Len(safe_str(Get(run.marja_file.sheet, r, 5))) < 3}

\* C7: a run over a Marja sheet with a buyer cost center shorter than 3
\* characters ends with success = False and a non-empty errors list, has
\* processed no calculation sheet and has not saved the workbook
C7_ShortCfoFailsRun ==
    (RunEnded /\ ShortCfoRows # {}) =>
        /\ ~run.success
        /\ run.errors # <<>>
        /\ run.calc_sheets = 0
        /\ ~run.saved

(***************************************************************************)
(* Properties of the ledger search: records that are not in the ledger     *)
(***************************************************************************)
SearchEnded == pc = "ledger_done"

\* the ledger rows whose reference is the contract
MatchingLedgerRows(contract) ==
    {i \in DOMAIN ledger.rows : safe_str(ledger.rows[i].ref_id) = contract}

\* no contract, no ledger row of the contract, or excluded articles only
NotInLedger(err) ==
    \/ err.contract = ""
    \/ MatchingLedgerRows(err.contract) = {}
    \/ \A i \in MatchingLedgerRows(err.contract) :
           safe_str(ledger.rows[i].article) \in exclusions

\* C11: after the search, a queue record without a contract, with a contract
\* that no ledger row refers to, or whose ledger rows all have excluded
\* articles has exactly one result record, with the status "Net v vyverke
\* VGO" and the amount 0
C11_NotFoundSingleRecord ==
    SearchEnded =>
        \A i \in DOMAIN arr_err_be :
            NotInLedger(arr_err_be[i]) =>
                /\ Cardinality(RecordsOf(arr_err_be[i])) = 1
                /\ \A j \in RecordsOf(arr_err_be[i]) :
                       /\ arr_rpt[j].status = STATUS_NOT_FOUND
                       /\ arr_rpt[j].sum = 0

(***************************************************************************)
(* Properties of the sheet pipeline: the contract written back             *)
(***************************************************************************)
\* update_analysis_status has run on a VGO sheet
UpdateDone == variant.is_vgo /\ pc \in {"blocks", "done"}

\* the contract column of the first block
ContractColumn == find_value(ws_calc, H_CONTRACT, FALSE, 1, START_COL_ACCOUNT, 0, 0)[2]

\* the queue record got a contract from sheet MARJA and the ledger has a
\* group of that contract with an article that is not excluded
InLedger(err) == err.contract # "" /\ Eligible(err.contract) # {}

\* a result record of the queue record with the status "Est v vyverke VGO"
\* and the amount of a ledger group of its contract
FoundInLedger(err) ==
    \E j \in DOMAIN arr_rpt :
        /\ arr_rpt[j].be = err.be
        /\ arr_rpt[j].cfo = err.cfo
        /\ arr_rpt[j].contract = err.contract
        /\ arr_rpt[j].status = STATUS_FOUND
        /\ \E grp \in Eligible(err.contract) : arr_rpt[j].sum = GroupTotal(grp)

\* C12: a queue record that has a contract from sheet MARJA and a ledger
\* group of that contract with a non-excluded article gets a result record
\* "Est v vyverke VGO" with the ledger amount, its contract is in the
\* contract column at its own row, and at the row of no queue record with
\* another contract
C12_ContractWrittenBack ==
    UpdateDone =>
        \A i \in DOMAIN arr_err_be :
            InLedger(arr_err_be[i]) =>
                /\ FoundInLedger(arr_err_be[i])
                /\ ContractColumn # 0
                /\ safe_str(Get(ws_calc, arr_err_be[i].row, ContractColumn))
                       = arr_err_be[i].contract
                /\ \A k \in DOMAIN arr_err_be \ {i} :
                       /\ arr_err_be[k].row # arr_err_be[i].row
                       /\ arr_err_be[k].contract # arr_err_be[i].contract =>
                              safe_str(Get(ws_calc, arr_err_be[k].row, ContractColumn))
                                  # arr_err_be[i].contract

C12_Witness ==
    /\ UpdateDone
    /\ Len(arr_err_be) >= 2
    /\ \E i \in DOMAIN arr_err_be :
          /\ InLedger(arr_err_be[i])
          /\ FoundInLedger(arr_err_be[i])
          /\ \E k \in DOMAIN arr_err_be : arr_err_be[k].contract # arr_err_be[i].contract

(***************************************************************************)
(* Specification SpecEnrich: steps 4 and 5 of process_vgo_sheet_full       *)
(* (collect_vgo_marja_data, enrich_err_be_with_contracts) on a queue whose *)
(* records may already have a contract.                                    *)
(***************************************************************************)
MaxEnrichRows == 2

EnrichMarjaRows ==
    {MarjaRow(Str(sup), Str("C10"), contract, Str("B1"), Num(400), flags) :
        sup \in {"S1", "S2"}, contract \in {None, Str("CT8"), Str("CT9")},
        flags \in {<<Str(SRC_VGO), Str(CLUSTER_KC), Str("X")>>,
                   <<Str(SRC_VGO), Str(CLUSTER_KC), Str(BUYER_T2)>>,
                   <<Str(SRC_BUDGET), Str(CLUSTER_KC), Str("X")>>}}

EnrichQueueRecords ==
    {[be |-> be, cfo |-> "C10", key |-> be \o "C10", contract |-> contract, row |-> 6] :
        be \in {"S1", "S3"}, contract \in {"", "CT0"}}

InitEnrich ==
    /\ pc = "enrich_start"
    /\ marja \in SeqsUpTo(EnrichMarjaRows, MaxEnrichRows)
    /\ arr_err_be \in SeqsUpTo(EnrichQueueRecords, MaxEnrichRows)
    /\ variant = [is_vgo |-> TRUE, is_t2 |-> FALSE, is_cod |-> FALSE]
    /\ ledger = NoLedger
    /\ exclusions = {}
    /\ ws_map = NoMap
    /\ ws_calc = EmptySheet
    /\ filtered_data = <<>>
    /\ pivot_data = <<>>
    /\ vgo_pivot = NoVgoPivot
    /\ mapping_data = <<>>
    /\ arr_rpt = <<>>
    /\ blocks = <<>>
    /\ history = NoHistory
    /\ run = NoRun

\* process_vgo_sheet_full, steps 4 and 5; history keeps the queue as it was
EnrichQueue ==
    /\ pc = "enrich_start"
    /\ arr_err_be' = enrich_err_be_with_contracts(arr_err_be, collect_vgo_marja_data(marja))
    /\ history' = [history EXCEPT !.taken = TRUE, !.queue = arr_err_be]
    /\ pc' = "enrich_done"
    /\ UNCHANGED <<variant, marja, filtered_data, pivot_data, ledger, exclusions, ws_map,
                   ws_calc, vgo_pivot, mapping_data, arr_rpt, blocks, run>>

NextEnrich == EnrichQueue

SpecEnrich == InitEnrich /\ [][NextEnrich]_vars

(***************************************************************************)
(* Properties of the enrichment                                            *)
(***************************************************************************)
EnrichDone == pc = "enrich_done"

\* the rows of sheet MARJA that the reconciliation of a VGO sheet reads
\* (source "iz otcheta VGO", buyer other than T2) with the pair of the record
MarjaMatches(err) ==
    {i \in DOMAIN marja :
        /\ safe_str(marja[i].source) = SRC_VGO
        /\ safe_str(marja[i].buyer_name) # BUYER_T2
        /\ safe_str(marja[i].sup) = err.be
        /\ safe_str(marja[i].cfo) = err.cfo}

\* C13: enrichment changes nothing but contracts; a record that had a
\* contract keeps it, a record without one gets the contract of the first
\* row of sheet MARJA with its supplier and cost center, and stays without
\* a contract when there is no such row
C13_FirstMatchWins ==
    EnrichDone =>
        /\ Len(arr_err_be) = Len(history.queue)
        /\ \A i \in DOMAIN arr_err_be :
              /\ [arr_err_be[i] EXCEPT !.contract = ""]
                     = [history.queue[i] EXCEPT !.contract = ""]
              /\ history.queue[i].contract # "" =>
                     arr_err_be[i].contract = history.queue[i].contract
              /\ (history.queue[i].contract = "" /\ MarjaMatches(history.queue[i]) = {}) =>
                     arr_err_be[i].contract = ""
              /\ (history.queue[i].contract = "" /\ MarjaMatches(history.queue[i]) # {}) =>
                     arr_err_be[i].contract
                         = safe_str(marja[Min(MarjaMatches(history.queue[i]))].contract)

\* two matching rows with different contracts, and a record that had one
C13_Witness ==
    /\ EnrichDone
    /\ \E i \in DOMAIN arr_err_be :
          /\ history.queue[i].contract = ""
          /\ Cardinality(MarjaMatches(history.queue[i])) = 2
          /\ safe_str(marja[1].contract) # safe_str(marja[2].contract)
          /\ arr_err_be[i].contract # ""
    /\ \E i \in DOMAIN arr_err_be : history.queue[i].contract # ""

(***************************************************************************)
(* Properties of the block-1 run: the source files                         *)
(***************************************************************************)
\* the progress marks of the stages after the two loads
LaterStages == {p \in DOMAIN run.progress : run.progress[p] > 25}

SourceMissing == ~run.marja_file.ok \/ ~run.vgo_file_ok

\* C14: when the Marja file or the VGO file cannot be loaded, no stage after
\* the loads is ever entered, nothing is saved, and the run ends with
\* success = False and a non-empty errors list
C14_MissingSourceAborts ==
    SourceMissing =>
        /\ LaterStages = {}
        /\ run.marja_cols = NoMarjaCols
        /\ run.calc_sheets = 0
        /\ ~run.saved
        /\ ~run.success
        /\ RunEnded => run.errors # <<>>

\* a run that loaded the Marja file and ended at the VGO file
C14_Witness ==
    /\ RunEnded
    /\ run.marja_file.ok
    /\ ~run.vgo_file_ok
    /\ run.ws_marja # EmptySheet
    /\ run.errors = <<ERR_VGO>>

(***************************************************************************)
(* UnloadCorrProcessor.process: the block-2 run. The stages are modelled   *)
(* by their outcome: the template sheet is there or not, the column of    *)
(* the balance unit is found or not, a stage raises or returns.            *)
(***************************************************************************)
ERR_TEMPLATE == "Ne udalos skopirovat shablon korrektirovki"
ERR_COLUMNS == "Ne udalos poluchit informaciyu o kolonkah"
ERR_STAGE == "Oshibka obrabotki"

\* the progress marks of the stages 5 to 10 of the block-2 run
CorrStages == {25, 75, 80, 85, 90, 93}

InitCorr ==
    /\ pc = "corr_start"
    /\ \E io \in WorkbookFiles, template \in BOOLEAN, balance_unit \in BOOLEAN,
          raise_at \in CorrStages \cup {0} :
          run = [block |-> 2, macros_file_ok |-> io[1], save_ok |-> io[2],
                 has_template |-> template, has_balance_unit |-> balance_unit,
                 raise_at |-> raise_at, progress |-> <<>>, success |-> FALSE,
                 errors |-> <<>>, opens |-> 0, saves |-> 0, saved |-> FALSE,
                 closed |-> FALSE]
    /\ variant = NoVariant
    /\ marja = <<>>
    /\ ledger = NoLedger
    /\ exclusions = {}
    /\ ws_map = NoMap
    /\ ws_calc = EmptySheet
    /\ filtered_data = <<>>
    /\ pivot_data = <<>>
    /\ vgo_pivot = NoVgoPivot
    /\ mapping_data = <<>>
    /\ arr_err_be = <<>>
    /\ arr_rpt = <<>>
    /\ blocks = <<>>
    /\ history = NoHistory

\* the run after a stage that returns nothing: on with the next stage, or in
\* the except clause when the stage raises
CorrStage(r, marks) ==
    IF r.raise_at \in {marks[i] : i \in DOMAIN marks}
    THEN [r EXCEPT !.progress = @ \o <<Head(marks)>>, !.errors = @ \o <<ERR_STAGE>>,
                   !.closed = TRUE]
    ELSE [r EXCEPT !.progress = @ \o marks]

\* process, step 1
CorrOpen ==
    /\ pc = "corr_start"
    /\ IF run.macros_file_ok
       THEN /\ run' = [run EXCEPT !.progress = @ \o <<0, 5>>, !.opens = @ + 1]
            /\ pc' = "corr_template"
       ELSE /\ run' = [run EXCEPT !.progress = @ \o <<0, 5>>, !.opens = @ + 1,
                                  !.errors = @ \o <<ERR_FILE>>, !.closed = TRUE]
            /\ pc' = "corr_end"
    /\ RunFrame

\* process, steps 2 and 3: _copy_template is False without the template sheet
CorrTemplate ==
    /\ pc = "corr_template"
    /\ IF run.has_template
       THEN /\ run' = [run EXCEPT !.progress = @ \o <<10, 15>>]
            /\ pc' = "corr_columns"
       ELSE /\ run' = [run EXCEPT !.progress = @ \o <<10, 15>>,
                                  !.errors = @ \o <<ERR_TEMPLATE>>, !.closed = TRUE]
            /\ pc' = "corr_end"
    /\ RunFrame

\* process, step 4: _get_column_info is False without the balance unit column
CorrColumns ==
    /\ pc = "corr_columns"
    /\ IF run.has_balance_unit
       THEN /\ run' = [run EXCEPT !.progress = @ \o <<20>>]
            /\ pc' = "corr_collect"
       ELSE /\ run' = [run EXCEPT !.progress = @ \o <<20>>,
                                  !.errors = @ \o <<ERR_COLUMNS>>, !.closed = TRUE]
            /\ pc' = "corr_end"
    /\ RunFrame

\* process, step 5: _collect_data_from_calc_sheets reports each sheet
CorrCollect ==
    /\ pc = "corr_collect"
    /\ run' = CorrStage(run, <<25>> \o [i \in 1..CALC_SHEETS |-> 25 + (i * 50) \div CALC_SHEETS])
    /\ pc' = IF run'.closed THEN "corr_end" ELSE "corr_fill"
    /\ RunFrame

\* process, steps 6 to 10: common fields, cleanup, format, control formula,
\* final sheet order
CorrFinish ==
    /\ pc = "corr_fill"
    /\ \E n \in 1..5 :
          /\ run.raise_at \in {0, <<75, 80, 85, 90, 93>>[n]}
          /\ run.raise_at = 0 => n = 5
          /\ run' = CorrStage([run EXCEPT !.progress = @ \o SubSeq(<<75, 80, 85, 90, 93>>, 1, n - 1)],
                              <<<<75, 80, 85, 90, 93>>[n]>>)
    /\ pc' = IF run'.closed THEN "corr_end" ELSE "corr_save"
    /\ RunFrame

\* process, step 11: the only save of the run
CorrSave ==
    /\ pc = "corr_save"
    /\ IF run.save_ok
       THEN run' = [run EXCEPT !.progress = @ \o <<95, 100>>, !.saves = @ + 1,
                               !.saved = TRUE, !.success = TRUE, !.closed = TRUE]
       ELSE run' = [run EXCEPT !.progress = @ \o <<95>>, !.saves = @ + 1,
                               !.errors = @ \o <<ERR_FILE>>, !.closed = TRUE]
    /\ pc' = "corr_end"
    /\ RunFrame

NextCorr ==
    \/ CorrOpen
    \/ CorrTemplate
    \/ CorrColumns
    \/ CorrCollect
    \/ CorrFinish
    \/ CorrSave

(***************************************************************************)
(* Specification SpecBlocks: a run of block 1 or a run of block 2          *)
(***************************************************************************)
InitBlocks == InitRun \/ InitCorr

NextBlocks == NextRun \/ NextCorr

SpecBlocks == InitBlocks /\ [][NextBlocks]_vars

(***************************************************************************)
(* Properties of the runs: opening and saving the workbook                 *)
(***************************************************************************)
BlockEnded == pc \in {"run_end", "corr_end"}

\* the progress marks of the processing stages that come before the save
StageMarks == IF run.block = 1 THEN {15, 25, 35, 40, 45, 50} ELSE {15, 20} \cup CorrStages

Reported == {run.progress[i] : i \in DOMAIN run.progress}

\* C15: in a run of block 1 or block 2 the workbook is opened once and saved
\* at most once, a save comes after every processing stage, it is the last
\* step of the run, and a successful run has saved exactly once
C15_SingleSaveAtEnd ==
    /\ run.opens <= 1
    /\ run.saves <= 1
    /\ BlockEnded => run.opens = 1
    /\ run.saves = 1 => (StageMarks \subseteq Reported /\ BlockEnded)
    /\ run.success => (run.saves = 1 /\ run.saved)
    /\ run.saved => run.success

\* a block-2 run that went through every stage and saved
C15_Witness ==
    /\ pc = "corr_end"
    /\ run.success
    /\ run.saves = 1
    /\ StageMarks \subseteq Reported

(***************************************************************************)
(* Specification SpecBatch: _process_calculation_sheets and the end of     *)
(* process(), sheet by sheet. A step of one sheet may raise an unexpected  *)
(* exception; one sheet may be missing from the workbook.                  *)
(***************************************************************************)
\* the sheets of CALC_SHEETS whose name holds "OTCHETA VGO"
IsVgoSheet(i) == i \in {3, 4, 7, 8}

\* the steps of _process_single_calc_sheet: pivot and first block, second
\* block (OPEX table or process_vgo_sheet_full), format_table
SheetPhases == {"prepare", "second", "format"}

NoRaise == <<0, "none">>

InitBatch ==
    /\ pc = "batch_prepare"
    /\ \E raise_at \in {NoRaise} \cup ((1..CALC_SHEETS) \X SheetPhases),
          missing \in 0..CALC_SHEETS, save_ok \in BOOLEAN :
          run = [block |-> 1, raise_at |-> raise_at, missing_sheet |-> missing,
                 save_ok |-> save_ok, sheet |-> 1, processed |-> <<>>, simplified |-> {},
                 progress |-> <<50>>, success |-> FALSE, errors |-> <<>>, opens |-> 1,
                 saves |-> 0, saved |-> FALSE, closed |-> FALSE]
    /\ variant = NoVariant
    /\ marja = <<>>
    /\ ledger = NoLedger
    /\ exclusions = {}
    /\ ws_map = NoMap
    /\ ws_calc = EmptySheet
    /\ filtered_data = <<>>
    /\ pivot_data = <<>>
    /\ vgo_pivot = NoVgoPivot
    /\ mapping_data = <<>>
    /\ arr_err_be = <<>>
    /\ arr_rpt = <<>>
    /\ blocks = <<>>
    /\ history = NoHistory

\* the exception leaves _process_calculation_sheets and ends in the except
\* clause of process()
BatchAborted(r) == [r EXCEPT !.errors = @ \o <<ERR_STAGE>>, !.closed = TRUE]

\* _process_single_calc_sheet has returned: the loop goes to the next sheet
SheetReturned(r) == [r EXCEPT !.processed = @ \o <<r.sheet>>, !.sheet = @ + 1]

AfterSheet(r) == IF r.sheet > CALC_SHEETS THEN "batch_save" ELSE "batch_prepare"

\* progress of the loop, then the sheet is looked up and its pivot and first
\* block are written; a missing sheet returns at once
BatchPrepare ==
    /\ pc = "batch_prepare"
    /\ IF run.missing_sheet = run.sheet
       THEN /\ run' = SheetReturned([run EXCEPT !.progress = @ \o <<50 + 5 * run.sheet>>])
            /\ pc' = AfterSheet(run')
       ELSE IF run.raise_at = <<run.sheet, "prepare">>
       THEN /\ run' = BatchAborted([run EXCEPT !.progress = @ \o <<50 + 5 * run.sheet>>])
            /\ pc' = "batch_end"
       ELSE /\ run' = [run EXCEPT !.progress = @ \o <<50 + 5 * run.sheet>>]
            /\ pc' = "batch_second"
    /\ RunFrame

\* the second block: the OPEX table of a budget sheet, or
\* process_vgo_sheet_full inside try/except on a VGO sheet
BatchSecond ==
    /\ pc = "batch_second"
    /\ IF run.raise_at = <<run.sheet, "second">>
       THEN IF IsVgoSheet(run.sheet)
            THEN /\ run' = [run EXCEPT !.simplified = @ \cup {run.sheet}]
                 /\ pc' = "batch_format"
            ELSE /\ run' = BatchAborted(run)
                 /\ pc' = "batch_end"
       ELSE /\ run' = run
            /\ pc' = "batch_format"
    /\ RunFrame

\* format_table, the last statement of _process_single_calc_sheet
BatchFormat ==
    /\ pc = "batch_format"
    /\ IF run.raise_at = <<run.sheet, "format">>
       THEN /\ run' = BatchAborted(run)
            /\ pc' = "batch_end"
       ELSE /\ run' = SheetReturned(run)
            /\ pc' = AfterSheet(run')
    /\ RunFrame

\* process, steps 10 to 12
BatchSave ==
    /\ pc = "batch_save"
    /\ IF run.save_ok
       THEN run' = [run EXCEPT !.progress = @ \o <<90, 93, 95, 100>>, !.saves = @ + 1,
                               !.saved = TRUE, !.success = TRUE, !.closed = TRUE]
       ELSE run' = [run EXCEPT !.progress = @ \o <<90, 93, 95>>, !.saves = @ + 1,
                               !.errors = @ \o <<ERR_FILE>>, !.closed = TRUE]
    /\ pc' = "batch_end"
    /\ RunFrame

NextBatch ==
    \/ BatchPrepare
    \/ BatchSecond
    \/ BatchFormat
    \/ BatchSave

SpecBatch == InitBatch /\ [][NextBatch]_vars

(***************************************************************************)
(* Properties of the batch of calculation sheets                           *)
(***************************************************************************)
BatchEnded == pc = "batch_end"

\* a step of a sheet of the workbook raises
ExceptionRaised == run.raise_at # NoRaise /\ run.raise_at[1] # run.missing_sheet

Processed == {run.processed[i] : i \in DOMAIN run.processed}

\* C16: when a step of one calculation sheet raises an unexpected exception,
\* every other calculation sheet is still processed and the run reaches the
\* save step
C16_SheetExceptionContained ==
    (BatchEnded /\ ExceptionRaised) =>
        /\ (1..CALC_SHEETS) \ {run.raise_at[1]} \subseteq Processed
        /\ run.saves = 1
        /\ run.save_ok => run.success

(***************************************************************************)
(* A mapping sheet without the section of the sheet's mapping              *)
(***************************************************************************)
\* the label of the section of the VGO mapping is nowhere on the mapping sheet
SectionMissing ==
    find_value(ws_map.cells, MappingSection(variant.is_t2), FALSE, 1, 1, 0, 0) = NotFound

\* C17: when the label of the mapping section is not found the section
\* readers return nothing, and the classification treats the empty mapping
\* as a mapping without records: no pivot record is found in it, so none is
\* written with the status "OK" and every one is written as not in the mapping
C17_EmptyMappingHasNoRecords ==
    (QueueBuilt /\ SectionMissing) =>
        /\ mapping_data = <<>>
        /\ _get_mapping_keys(ws_map, MappingSection(variant.is_t2), variant.is_t2) = {}
        /\ \A i \in DOMAIN FirstBlockStatuses :
               FirstBlockStatuses[i] = STATUS_NOT_IN_MAPPING

(***************************************************************************)
(* Specification SpecTotal: the sheet pipeline on a sheet MARJA that holds *)
(* grand total rows, and on budget sheets with their grand total row       *)
(***************************************************************************)
TotalMarjaRows ==
    {MarjaRow(Str(sup), Str("C10"), contract, Str("B1"),
              Num(IF sup = GRAND_TOTAL THEN 6400 ELSE 400),
              <<Str(SRC_VGO), Str(CLUSTER_KC), buyer>>) :
        sup \in {"S1", GRAND_TOTAL}, contract \in {None, Str("CT9")},
        buyer \in {Str("X"), Str(BUYER_T2)}}

InitTotal ==
    /\ pc = "start"
    /\ \/ /\ variant \in VgoSheetVariants
          /\ marja \in SeqsUpTo(TotalMarjaRows, MaxMarja)
          /\ ledger \in {[present |-> TRUE, rows |-> rows] :
                            rows \in SeqsUpTo(SheetLedgerRows, MaxLedgerRows)}
          /\ exclusions = {"AX"}
          /\ ws_map \in MapSheets
          /\ ws_calc = StaleVgoSheet
       \/ InitBudgetSheet
    /\ filtered_data = <<>>
    /\ pivot_data = <<>>
    /\ vgo_pivot = NoVgoPivot
    /\ mapping_data = <<>>
    /\ arr_err_be = <<>>
    /\ arr_rpt = <<>>
    /\ blocks = <<>>
    /\ history = NoHistory
    /\ run = NoRun

SpecTotal == InitTotal /\ [][Next]_vars

(***************************************************************************)
(* Properties of the grand total rows                                      *)
(***************************************************************************)
\* the pivot of the sheet holds a grand total record
HasGrandTotal == \E i \in DOMAIN pivot_data : CellStr(pivot_data[i].be_supplier) = GRAND_TOTAL

\* the total of the pivot records other than the grand total
TotalOfOthers ==
    SumSeq([i \in DOMAIN pivot_data |->
               IF CellStr(pivot_data[i].be_supplier) = GRAND_TOTAL
               THEN 0 ELSE safe_float(pivot_data[i].sum, 0)])

\* the cells of the mapping blocks: the columns from START_COL_ACCOUNT on
BlockCells == {p \in DOMAIN ws_calc : p[2] >= START_COL_ACCOUNT}

\* the rows of the pivot table in the columns A to D that show the grand total
TotalRowsShown == {p \in DOMAIN ws_calc : p[2] = 1 /\ CellStr(ws_calc[p]) = GRAND_TOTAL}

\* C18: in every variant no status row, queue record, result record, CAPEX
\* row or OPEX row is derived from a grand total record, every Check total is
\* the total of the other records or the sum of the rows of its block, and
\* the grand total row stays in the pivot table A:D of the sheet
C18_GrandTotalExcluded ==
    /\ \A p \in BlockCells : ~Contains(CellStr(ws_calc[p]), GRAND_TOTAL)
    /\ \A i \in DOMAIN arr_err_be : ~Contains(arr_err_be[i].key, GRAND_TOTAL)
    /\ \A j \in DOMAIN arr_rpt : arr_rpt[j].be # GRAND_TOTAL
    /\ pc = "done" =>
           \A i \in DOMAIN blocks :
               ShownValue(ws_calc, CheckCell(blocks[i]))
                   \in {TotalOfOthers, 0 - TotalOfOthers,
                        NumberSum(ws_calc, blocks[i].amount_col, blocks[i].first_row,
                                  blocks[i].last_row)}
    /\ (pc # "start" /\ HasGrandTotal) => TotalRowsShown # {}

\* a finished VGO sheet with blocks whose pivot holds a grand total record
C18_Witness ==
    /\ pc = "done"
    /\ variant.is_vgo
    /\ HasGrandTotal
    /\ blocks # <<>>
    /\ arr_err_be # <<>>

(***************************************************************************)
(* The analysis status of the first block                                  *)
(***************************************************************************)
\* the first block of a VGO sheet is on the sheet
FirstBlockWritten ==
    variant.is_vgo /\ pc \in {"engine", "search", "update", "blocks", "done"}

\* the status of a record that is written back: "not in the mapping" only
\* for a key that a mapping with records does not hold
ExpectedStatus(values) ==
    LET mapping_keys == _get_mapping_keys(ws_map, MappingSection(variant.is_t2),
                                          variant.is_t2)
    IN  IF mapping_keys # {} /\ LookupKey(values) \notin mapping_keys
        THEN STATUS_NOT_IN_MAPPING
        ELSE STATUS_OK

StatusAsWritten ==
    \A i \in DOMAIN FirstBlockStatuses :
        FirstBlockStatuses[i] = ExpectedStatus(NotGrandTotal(pivot_data)[i])

\* the cells that a step changes
ChangedCells ==
    {p \in DOMAIN ws_calc \cup DOMAIN ws_calc' : Get(ws_calc', p[1], p[2]) # Get(ws_calc, p[1], p[2])}

MaxFindCol == 2

FindRowSet == 1..2

FindColSet == 1..MaxFindCol

\* what a cell of the worksheet holds: nothing, a text or the number 2.5
FindCellValues == {None, Str("AB"), Num(5)}

FindSheets ==
    {[p \in {q \in FindRowSet \X FindColSet : f[q] # None} |-> f[p]] :
        f \in [FindRowSet \X FindColSet -> FindCellValues]}

FindTexts == {"B", "AB", "2.5", ""}

InitFind ==
    /\ pc = "find"
    /\ ws_calc \in FindSheets
    /\ run = NoRun
    /\ variant = NoVariant
    /\ marja = <<>>
    /\ ledger = NoLedger
    /\ exclusions = {}
    /\ ws_map = NoMap
    /\ filtered_data = <<>>
    /\ pivot_data = <<>>
    /\ vgo_pivot = NoVgoPivot
    /\ mapping_data = <<>>
    /\ arr_err_be = <<>>
    /\ arr_rpt = <<>>
    /\ blocks = <<>>
    /\ history = NoHistory

\* one call of find_value; end_row = 0 and end_col = 0 are calls without
\* the argument
FindValue ==
    /\ pc = "find"
    /\ \E search_value \in FindTexts, partial \in BOOLEAN,
          start_row \in FindRowSet, start_col \in FindColSet,
          end_row \in {0} \cup FindRowSet, end_col \in {0} \cup FindColSet :
          run' = [search_value |-> search_value, partial |-> partial,
                  start_row |-> start_row, start_col |-> start_col,
                  end_row |-> end_row, end_col |-> end_col,
                  found |-> find_value(ws_calc, search_value, partial, start_row,
                                       start_col, end_row, end_col)]
    /\ pc' = "found"
    /\ UNCHANGED <<variant, marja, filtered_data, pivot_data, ledger, exclusions, ws_map,
                   ws_calc, vgo_pivot, mapping_data, arr_err_be, arr_rpt, blocks, history>>

NextFind == FindValue

SpecFind == InitFind /\ [][NextFind]_vars

(***************************************************************************)
(* Properties of find_value                                                *)
(***************************************************************************)
Searched == pc = "found"

\* the cell is inside the bounds of the call
InBounds(p) ==
    /\ p[1] >= run.start_row
    /\ p[1] <= (IF run.end_row = 0 THEN max_row(ws_calc) ELSE run.end_row)
    /\ p[2] >= run.start_col
    /\ p[2] <= (IF run.end_col = 0 THEN max_col(ws_calc) ELSE run.end_col)

\* the cell holds a value whose string form matches the text of the call
Matches(p) ==
    /\ Get(ws_calc, p[1], p[2]) # None
    /\ IF run.partial
       THEN Contains(CellStr(Get(ws_calc, p[1], p[2])), run.search_value)
       ELSE CellStr(Get(ws_calc, p[1], p[2])) = run.search_value

\* p comes before q in row-major order
Before(p, q) == p[1] < q[1] \/ (p[1] = q[1] /\ p[2] < q[2])

FindCellSet == FindRowSet \X FindColSet

\* C20: find_value returns the first cell in row-major order, inside the
\* bounds of the call, whose string form contains the text (partial) or
\* equals it; it returns not-found exactly when no cell inside the bounds
\* matches, and never a cell outside the bounds
C20_FindValueFirstInBounds ==
    Searched =>
        /\ run.found = NotFound <=> ~\E p \in FindCellSet : InBounds(p) /\ Matches(p)
        /\ run.found # NotFound =>
               /\ run.found \in FindCellSet
               /\ InBounds(run.found)
               /\ Matches(run.found)
               /\ \A p \in FindCellSet : (InBounds(p) /\ Matches(p)) => ~Before(p, run.found)

\* a call that skips a matching cell before its bounds and returns the
\* first of two matching cells inside them
C20_Witness ==
    /\ Searched
    /\ run.found # NotFound
    /\ \E p \in FindCellSet : Matches(p) /\ ~InBounds(p) /\ Before(p, run.found)
    /\ \E q \in FindCellSet : Matches(q) /\ InBounds(q) /\ Before(run.found, q)

(***************************************************************************)
(* evaluate_vgo_t2_mapping_formulas: the key formulas of the T2 section    *)
(* are replaced by their values on the mapping sheet                       *)
(***************************************************************************)
\* the header cells of the ten columns of the section, in the header row
\* and the row below
HeaderCells(g, header_row, section_col) ==
    {p \in (header_row..(header_row + 1)) \X (section_col..(section_col + 9)) :
        Truthy(Get(g, p[1], p[2]))}

\* the last column with a header of the kind; 0 without one
HeaderColumn(g, cells, kind) ==
    LET cols == {p[2] : p \in {q \in cells :
                    LET val_str == CellStr(Get(g, q[1], q[2]))
                    IN  CASE kind = "key" -> Contains(val_str, H_BE_DOG)
                          [] kind = "be" -> ~Contains(val_str, H_BE_DOG) /\ val_str = H_BE_SUP
                          [] OTHER -> ~Contains(val_str, H_BE_DOG) /\ val_str = H_DOGOVOR}}
    IN  IF cols = {} THEN 0 ELSE Max(cols)

RECURSIVE EvaluateRows(_, _, _, _)
EvaluateRows(g, row, last_row, key_col) ==
    IF row > last_row
    THEN g
    ELSE LET val == Get(g, row, key_col)
         IN  EvaluateRows(IF Truthy(val) /\ val.k = "str" /\ StartsWith(val.s, "=")
                             /\ Contains(val.s, "&")
                          THEN SetValue(g, row, key_col, EvalConcat(g, val.s))
                          ELSE g,
                          row + 1, last_row, key_col)

evaluate_vgo_t2_mapping_formulas(ws) ==
    LET g == ws.cells
        found == find_value(g, SEC_VGO_T2, FALSE, 1, 1, 0, 0)
    IN  IF found = NotFound
        THEN ws
        ELSE LET section_row == found[1]
                 section_col == found[2]
                 with_be == {r \in (section_row + 1)..(section_row + 4) :
                                /\ Truthy(Get(g, r, section_col))
                                /\ Contains(CellStr(Get(g, r, section_col)), H_BE)}
                 header_row == IF with_be = {} THEN section_row + 1 ELSE Min(with_be)
                 cells == HeaderCells(g, header_row, section_col)
                 key_col == HeaderColumn(g, cells, "key")
                 be_col == HeaderColumn(g, cells, "be")
                 dog_col == HeaderColumn(g, cells, "dog")
             IN  IF key_col = 0 \/ be_col = 0 \/ dog_col = 0
                 THEN ws
                 ELSE [ws EXCEPT !.cells = EvaluateRows(g, header_row + 1, max_row(g),
                                                        key_col)]

(***************************************************************************)
(* Specification SpecFormula: a mapping section whose key cells hold       *)
(* formulas is read by get_vgo_mapping_data and then evaluated in place    *)
(***************************************************************************)
MaxFormulaRows == 2

\* the shapes of a key cell: three spellings of =REF1&REF2 on the row's own
\* cells, the same on the cells of the row below, and shapes the code does
\* not evaluate
FormulaShapes == {"concat", "spaced", "absolute", "below", "three", "text", "sum", "plain"}

FormulaRows ==
    {[shape |-> shape, be |-> be, key2 |-> key2] :
        shape \in FormulaShapes, be \in {Str("S1"), Num(5), None},
        key2 \in {Str("CT9"), None}}

\* the section of the variant, its first column and the offset of the
\* second half of the key (contract or buyer cost center)
FormulaSection(is_t2) == IF is_t2 THEN SEC_VGO_T2 ELSE SEC_VGO

FormulaCol(is_t2) == IF is_t2 THEN MAP_T2_COL ELSE MAP_VGO_COL

Key2Offset(is_t2) == IF is_t2 THEN 3 ELSE 2

\* the text of the key cell of a row written in the sheet row r
FormulaText(shape, r, is_t2) ==
    LET a == ColName(FormulaCol(is_t2) + 1)
        b == ColName(FormulaCol(is_t2) + Key2Offset(is_t2))
    IN  CASE shape = "concat" -> "=" \o a \o ToString(r) \o "&" \o b \o ToString(r)
          [] shape = "spaced" -> "= " \o a \o ToString(r) \o " & " \o b \o ToString(r) \o " "
          [] shape = "absolute" ->
                "=$" \o a \o "$" \o ToString(r) \o "&$" \o b \o "$" \o ToString(r)
          [] shape = "below" ->
                "=" \o a \o ToString(r + 1) \o "&" \o b \o ToString(r + 1)
          [] shape = "three" ->
                "=" \o a \o ToString(r) \o "&" \o b \o ToString(r) \o "&" \o a \o ToString(r)
          [] shape = "text" -> "=" \o a \o ToString(r) \o "&\"x\""
          [] shape = "sum" -> "=SUM(" \o a \o ToString(r) \o ":" \o b \o ToString(r) \o ")"
          [] OTHER -> "S1CT9"

FormulaSheetRow(row, r, is_t2) ==
    IF is_t2
    THEN <<Str(FormulaText(row.shape, r, is_t2)), row.be, Str("OP1"), row.key2, Str("A1"),
           None, Num(200)>>
    ELSE <<Str(FormulaText(row.shape, r, is_t2)), row.be, row.key2, Str("OP1"), Str("P1"),
           Str("A1"), None, Num(200)>>

FormulaSheet(rows, is_t2) ==
    [cells |-> WriteSection(EmptySheet, FormulaCol(is_t2), FormulaSection(is_t2),
                            IF is_t2 THEN T2Headers ELSE VgoHeaders,
                            [i \in DOMAIN rows |->
                                FormulaSheetRow(rows[i], MAP_SECTION_ROW + 1 + i, is_t2)]),
     merged |-> {SectionRange(FormulaCol(is_t2), IF is_t2 THEN 7 ELSE 8)}]

InitFormula ==
    /\ pc = "formula"
    /\ variant \in VgoSheetVariants
    /\ \E rows \in SeqsUpTo(FormulaRows, MaxFormulaRows) :
          /\ history = [taken |-> FALSE, statuses |-> <<>>, queue |-> rows]
          /\ ws_map = FormulaSheet(rows, variant.is_t2)
    /\ run = NoRun
    /\ marja = <<>>
    /\ ledger = NoLedger
    /\ exclusions = {}
    /\ ws_calc = EmptySheet
    /\ filtered_data = <<>>
    /\ pivot_data = <<>>
    /\ vgo_pivot = NoVgoPivot
    /\ mapping_data = <<>>
    /\ arr_err_be = <<>>
    /\ arr_rpt = <<>>
    /\ blocks = <<>>

\* process_vgo_sheet_full, step 2: the section is read
FormulaRead ==
    /\ pc = "formula"
    /\ mapping_data' = get_vgo_mapping_data(ws_map, variant.is_t2)
    /\ pc' = "formula_read"
    /\ UNCHANGED <<variant, marja, filtered_data, pivot_data, ledger, exclusions, ws_map,
                   ws_calc, vgo_pivot, arr_err_be, arr_rpt, blocks, history, run>>

\* process, step 11: the formulas of the T2 section are evaluated in place
FormulaEvaluate ==
    /\ pc = "formula_read"
    /\ ws_map' = evaluate_vgo_t2_mapping_formulas(ws_map)
    /\ history' = [history EXCEPT !.taken = TRUE, !.statuses = <<ws_map>>]
    /\ pc' = "formula_done"
    /\ UNCHANGED <<variant, marja, filtered_data, pivot_data, ledger, exclusions, ws_calc,
                   vgo_pivot, mapping_data, arr_err_be, arr_rpt, blocks, run>>

NextFormula ==
    \/ FormulaRead
    \/ FormulaEvaluate

SpecFormula == InitFormula /\ [][NextFormula]_vars

(***************************************************************************)
(* Properties of the key formulas                                          *)
(***************************************************************************)
\* the string form of a value of the grid, empty for an empty cell
RefText(v) == IF v = None THEN "" ELSE CellStr(v)

\* the rows of the section as they were written
WrittenFormulas == history.queue

\* what the key cell of the i-th row stands for: the concatenation of the
\* two referenced values for the shape =REF1&REF2, the cell's own text for
\* every other shape
KeyValue(i) ==
    LET row == WrittenFormulas[i]
        text == FormulaText(row.shape, MAP_SECTION_ROW + 1 + i, variant.is_t2)
    IN  CASE row.shape \in {"concat", "spaced", "absolute"} ->
                RefText(row.be) \o RefText(row.key2)
          [] row.shape = "below" ->
                IF i + 1 \in DOMAIN WrittenFormulas
                THEN RefText(WrittenFormulas[i + 1].be) \o RefText(WrittenFormulas[i + 1].key2)
                ELSE ""
          [] OTHER -> text

KeyCell(i) == Get(ws_map.cells, MAP_SECTION_ROW + 1 + i, FormulaCol(variant.is_t2))

\* C21: a key cell with a formula =REF1&REF2 is evaluated to the
\* concatenation of the string forms of the two referenced cells (an empty
\* or missing cell gives the empty string), in the rows that
\* get_vgo_mapping_data returns and, on the T2 section, on the sheet after
\* evaluate_vgo_t2_mapping_formulas; a formula of any other shape is left
\* as it is, and nothing else on the sheet changes
C21_ConcatFormulaEvaluated ==
    /\ pc \in {"formula_read", "formula_done"} =>
           /\ Len(mapping_data) = Len(WrittenFormulas)
           /\ \A i \in DOMAIN mapping_data : mapping_data[i][1] = Str(KeyValue(i))
    /\ pc = "formula_done" =>
           /\ \A i \in DOMAIN WrittenFormulas :
                  KeyCell(i) = IF variant.is_t2
                               THEN Str(KeyValue(i))
                               ELSE Get(history.statuses[1].cells, MAP_SECTION_ROW + 1 + i,
                                        FormulaCol(variant.is_t2))
           /\ \A p \in DOMAIN history.statuses[1].cells \cup DOMAIN ws_map.cells :
                  p[2] # FormulaCol(variant.is_t2) =>
                      Get(ws_map.cells, p[1], p[2]) = Get(history.statuses[1].cells, p[1], p[2])

\* a T2 section with an evaluated formula over an empty cell and a formula
\* of another shape that is left as it is
C21_Witness ==
    /\ pc = "formula_done"
    /\ variant.is_t2
    /\ \E i \in DOMAIN WrittenFormulas :
           /\ WrittenFormulas[i].shape = "absolute"
           /\ WrittenFormulas[i].key2 = None
           /\ KeyCell(i) = Str("2.5")
    /\ \E i \in DOMAIN WrittenFormulas :
           /\ WrittenFormulas[i].shape = "three"
           /\ KeyCell(i).s = FormulaText("three", MAP_SECTION_ROW + 1 + i, TRUE)

(***************************************************************************)
(* _filter_data_for_sheet on the table of sheet MARJA: the header row and  *)
(* the data rows as lists of cell values.  The operator of the same name   *)
(* above is this filter on rows whose three flags have been located.       *)
(***************************************************************************)
SOURCE_WORD == "Istochnik"

\* the loop over the headers: the first header with each word, 0 without one
RECURSIVE FilterColumns(_, _, _)
FilterColumns(headers, i, idx) ==
    IF i > Len(headers)
    THEN idx
    ELSE LET h_str == safe_str(headers[i])
         IN  FilterColumns(headers, i + 1,
                 IF Contains(h_str, SOURCE_WORD) /\ idx.source = 0
                 THEN [idx EXCEPT !.source = i]
                 ELSE IF Contains(h_str, H_CLUSTER) /\ idx.cluster = 0
                 THEN [idx EXCEPT !.cluster = i]
                 ELSE IF Contains(h_str, M_BUYER) /\ idx.buyer = 0
                 THEN [idx EXCEPT !.buyer = i]
                 ELSE idx)

\* a row that is kept whatever its cluster is
TableRowPassesAnyCluster(row, idx, is_budget, is_t2, is_cod) ==
    /\ idx.source # 0 =>
           IF is_budget THEN safe_str(row[idx.source]) = SRC_BUDGET
                        ELSE safe_str(row[idx.source]) = SRC_VGO
    /\ idx.buyer # 0 =>
           IF is_t2 THEN safe_str(row[idx.buyer]) = BUYER_T2
                    ELSE safe_str(row[idx.buyer]) # BUYER_T2

TableRowPasses(row, idx, is_budget, is_t2, is_cod) ==
    /\ idx.source # 0 =>
           IF is_budget THEN safe_str(row[idx.source]) = SRC_BUDGET
                        ELSE safe_str(row[idx.source]) = SRC_VGO
    /\ idx.cluster # 0 =>
           IF is_cod THEN safe_str(row[idx.cluster]) = CLUSTER_COD
                     ELSE safe_str(row[idx.cluster]) = CLUSTER_KC
    /\ idx.buyer # 0 =>
           IF is_t2 THEN safe_str(row[idx.buyer]) = BUYER_T2
                    ELSE safe_str(row[idx.buyer]) # BUYER_T2

FilterTable(data, is_budget, is_t2, is_cod) ==
    IF Len(data) < 2
    THEN <<>>
    ELSE LET idx == FilterColumns(data[1], 1, [source |-> 0, cluster |-> 0, buyer |-> 0])
         IN  <<data[1]>> \o SelectSeq(Tail(data),
                                      LAMBDA row : TableRowPasses(row, idx, is_budget, is_t2,
                                                                  is_cod))

(***************************************************************************)
(* Specification SpecFilter: the table of sheet MARJA after                *)
(* _create_marja_formulas, filtered for one of the eight sheet variants    *)
(***************************************************************************)
MaxFilterRows == 3

\* the header row: the buyer name, the supplier code, and the columns that
\* _create_marja_formulas has added
FilterHeaders ==
    <<Str(M_BUYER), Str(M_SUPPLIER), Str("*"), Str(H_SOURCE), Str("*"), Str(H_CLUSTER)>>

FilterDataRows ==
    {<<buyer, Str("S1"), Str("S1"), Str(source), Str("S1CT9"), cluster>> :
        buyer \in {Str(BUYER_T2), Str("X")}, source \in {SRC_BUDGET, SRC_VGO},
        cluster \in {Str(CLUSTER_COD), Str(CLUSTER_KC), None}}

SheetVariantFlags ==
    {[is_vgo |-> vgo, is_t2 |-> t2, is_cod |-> cod] :
        vgo \in BOOLEAN, t2 \in BOOLEAN, cod \in BOOLEAN}

InitFilter ==
    /\ pc = "filter"
    /\ variant \in SheetVariantFlags
    /\ marja \in {<<FilterHeaders>> \o rows : rows \in SeqsUpTo(FilterDataRows, MaxFilterRows)}
    /\ filtered_data = <<>>
    /\ run = NoRun
    /\ ledger = NoLedger
    /\ exclusions = {}
    /\ ws_map = NoMap
    /\ ws_calc = EmptySheet
    /\ pivot_data = <<>>
    /\ vgo_pivot = NoVgoPivot
    /\ mapping_data = <<>>
    /\ arr_err_be = <<>>
    /\ arr_rpt = <<>>
    /\ blocks = <<>>
    /\ history = NoHistory

FilterForSheet ==
    /\ pc = "filter"
    /\ filtered_data' = FilterTable(marja, ~variant.is_vgo, variant.is_t2, variant.is_cod)
    /\ pc' = "filtered"
    /\ UNCHANGED <<variant, marja, pivot_data, ledger, exclusions, ws_map, ws_calc, vgo_pivot,
                   mapping_data, arr_err_be, arr_rpt, blocks, history, run>>

NextFilter == FilterForSheet

SpecFilter == InitFilter /\ [][NextFilter]_vars

(***************************************************************************)
(* Properties of the filter                                                *)
(***************************************************************************)
Filtered == pc = "filtered"

\* the data row i of the table has the three flags of the variant
MatchesVariant(i) ==
    /\ marja[i][4] = Str(IF variant.is_vgo THEN SRC_VGO ELSE SRC_BUDGET)
    /\ marja[i][6] = Str(IF variant.is_cod THEN CLUSTER_COD ELSE CLUSTER_KC)
    /\ (marja[i][1] = Str(BUYER_T2)) <=> variant.is_t2

MatchingRows == {i \in 2..Len(marja) : MatchesVariant(i)}

\* the k-th matching row of the table
KthMatching(k) == CHOOSE i \in MatchingRows : Cardinality({j \in MatchingRows : j <= i}) = k

\* the result is the header row and then the matching rows in their order
HeaderAndMatches ==
    /\ Len(filtered_data) = 1 + Cardinality(MatchingRows)
    /\ filtered_data[1] = marja[1]
    /\ \A k \in 1..Cardinality(MatchingRows) : filtered_data[1 + k] = marja[KthMatching(k)]

\* C22 as stated: for every table and variant the result is the header row
\* plus exactly the rows that match the three criteria, in their order
C22_AsStated == Filtered => HeaderAndMatches

\* C22: for a table with at least one data row the result is the header row
\* plus exactly the data rows whose source, cluster and buyer flags are those
\* of the variant, in their original order; for a table without data rows
\* the result is empty, without the header row
C22_FilterExactRows ==
    Filtered =>
        IF Len(marja) < 2 THEN filtered_data = <<>> ELSE HeaderAndMatches

\* a table of three data rows of which the first and the last match
C22_Witness ==
    /\ Filtered
    /\ Len(marja) = 4
    /\ MatchingRows = {2, 4}
    /\ Len(filtered_data) = 3

(***************************************************************************)
(* Properties of the CAPEX block of a VGO sheet                            *)
(***************************************************************************)
\* a VGO sheet is finished and has its two second blocks
SecondBlocksDone == pc = "done" /\ variant.is_vgo /\ Len(blocks) = 2

\* the pivot records other than the grand total, in their order
CapexRecords ==
    SelectSeq(pivot_data, LAMBDA values : safe_str(values.be_supplier) # GRAND_TOTAL)

\* the cell of the i-th row of a block, offset columns right of the first
BlockCell(b, i, offset) == Get(ws_calc, b.first_row + i - 1, START_COL_ACCOUNT + offset)

\* the rows of sheet MARJA with the supplier and contract of the record
PairRows(values) ==
    {i \in DOMAIN marja :
        /\ safe_str(marja[i].sup) = safe_str(values.be_supplier)
        /\ safe_str(marja[i].contract) = safe_str(values.cfo)}

\* the i-th CAPEX row is the row of the i-th record: its key, the article
\* PI02, the weight 100 and the negated sum
CapexRowOf(b, i, shift) ==
    /\ BlockCell(b, i, 0) = Str(LookupKey(CapexRecords[i]))
    /\ BlockCell(b, i, 3 + shift) = Str(PI02)
    /\ BlockCell(b, i, 4 + shift) = Num(200)
    /\ BlockCell(b, i, 5 + shift) = Num(0 - safe_float(CapexRecords[i].sum, 0))

PivotStepDone == variant.is_vgo /\ pc # "start"

\* the cells of the columns A to D from row 5 down
SummaryCells(g) == {p \in DOMAIN g : p[1] >= 5 /\ p[2] <= 4}

\* the summary of the rows of sheet MARJA that pass the filter of the
\* variant, written on an empty sheet
FreshSummary ==
    _write_summary_table(EmptySheet,
                         _create_pivot_data(_filter_data_for_sheet(marja, FALSE, variant.is_t2,
                                                                   variant.is_cod),
                                            TRUE, variant.is_t2),
                         TRUE, TRUE, variant.is_t2)

\* C24: after the pivot step of a VGO sheet the columns A to D from row 5
\* down hold exactly the summary of the filtered rows of sheet MARJA, with no
\* row of an earlier run left, whatever the filtered rows are
C24_SummaryOverwritten ==
    PivotStepDone =>
        /\ SummaryCells(ws_calc) = SummaryCells(FreshSummary)
        /\ \A p \in SummaryCells(ws_calc) : ws_calc[p] = FreshSummary[p]

(***************************************************************************)
(* Specification SpecOpex: a budget calculation sheet whose pivot has      *)
(* several buyers of one supplier and whose OPEX mapping has several        *)
(* cost centers and articles of one supplier (_create_mapping_table_opex)  *)
(***************************************************************************)
MaxOpexPivotRows == 3
MaxOpexMapRows == 2

OpexPivotRows ==
    {<<Str("S1"), Str("C10"), Str("B1"), Num(400)>>,
     <<Str("S1"), Str("C10"), Str("B2"), Num(800)>>,
     <<Str("S2"), Str("C20"), Str("B1"), Num(400)>>}

OpexSortMapRows ==
    {<<Str("S1"), Str("OP1"), Str("A1"), Num(200)>>,
     <<Str("S1"), Str("OP1"), Str("A2"), Num(200)>>,
     <<Str("S1"), Str("OP2"), Str("A1"), Num(200)>>,
     <<Str("S2"), Str("OP1"), Str("A1"), Num(200)>>}

InitOpex ==
    /\ pc = "start"
    /\ variant \in BudgetSheetVariants
    /\ marja = <<>>
    /\ ledger = [present |-> TRUE, rows |-> <<>>]
    /\ exclusions = {}
    /\ ws_map \in {MapSheet(TRUE, opex, TRUE, <<>>) :
                      opex \in SeqsUpTo(OpexSortMapRows, MaxOpexMapRows)}
    /\ ws_calc \in {BudgetSheet(rows) : rows \in SeqsUpTo(OpexPivotRows, MaxOpexPivotRows)}
    /\ filtered_data = <<>>
    /\ pivot_data = <<>>
    /\ vgo_pivot = NoVgoPivot
    /\ mapping_data = <<>>
    /\ arr_err_be = <<>>
    /\ arr_rpt = <<>>
    /\ blocks = <<>>
    /\ history = NoHistory
    /\ run = NoRun

NextOpex ==
    \/ PreparePivot
    \/ WriteFirstBlock
    \/ CreateMappingTableOpex

SpecOpex == InitOpex /\ [][NextOpex]_vars

\* a is not after b in the order supplier descending, buyer ascending,
\* cost center ascending, article ascending; a and b as OpexRowOnSheet
OpexNotAfter(a, b) ==
    IF a[1] # b[1] THEN StrLess(b[1], a[1])
    ELSE IF a[2] # b[2] THEN StrLess(a[2], b[2])
    ELSE IF a[3] # b[3] THEN StrLess(a[3], b[3])
    ELSE ~StrLess(b[4], a[4])

\* the index of the first differing key of two rows, 5 if none differs
FirstDifference(a, b) ==
    IF \E k \in 1..4 : a[k] # b[k] THEN CHOOSE k \in 1..4 : a[k] # b[k] /\ \A j \in 1..(k - 1) : a[j] = b[j]
    ELSE 5

\* C25: any two consecutive rows of the budget OPEX block are in the order
\* supplier descending, buyer ascending, cost center ascending, article
\* ascending
C25_OpexRowsSorted ==
    BudgetDone =>
        \A r \in OpexBlockRowSet :
            (r + 1) \in OpexBlockRowSet => OpexNotAfter(OpexRowOnSheet(r), OpexRowOnSheet(r + 1))

\* a block whose rows were built in another order than the written one and
\* whose consecutive rows differ first in the supplier, in the buyer, in the
\* cost center and in the article
C25_Witness ==
    /\ BudgetDone
    /\ LET built == OpexRowsToWrite(SumByKey(<<>>, pivot_data), mapping_data)
       IN  \E i \in DOMAIN built :
              <<built[i].be_supplier, built[i].be_buyer, built[i].cfo_oper, built[i].stat_oper>>
                  # <<OpexRowOnSheet(blocks[2].first_row + i - 1)[1],
                       OpexRowOnSheet(blocks[2].first_row + i - 1)[2],
                       OpexRowOnSheet(blocks[2].first_row + i - 1)[3],
                       OpexRowOnSheet(blocks[2].first_row + i - 1)[4]>>
    /\ \E r \in OpexBlockRowSet :
          (r + 1) \in OpexBlockRowSet
          /\ FirstDifference(OpexRowOnSheet(r), OpexRowOnSheet(r + 1)) = 2
    /\ \E r \in OpexBlockRowSet :
          (r + 1) \in OpexBlockRowSet
          /\ FirstDifference(OpexRowOnSheet(r), OpexRowOnSheet(r + 1)) \in {3, 4}

(***************************************************************************)
(* Specification SpecSummary: VGO sheets whose sheet MARJA gives up to     *)
(* three pivot records with equal and with different sums                  *)
(* (_write_summary_table)                                                   *)
(***************************************************************************)
MaxSummaryRows == 3

SummaryMarjaRows ==
    {MarjaRow(Str(sup), Str("C10"), Str("CT9"), Str("B1"), amt,
              <<Str(SRC_VGO), Str(CLUSTER_KC), Str("X")>>) :
        sup \in {"S1", "S2", "S3"}, amt \in {Num(400), Num(800)}}

InitSummary ==
    /\ pc = "start"
    /\ variant = [is_vgo |-> TRUE, is_t2 |-> FALSE, is_cod |-> FALSE]
    /\ marja \in SeqsUpTo(SummaryMarjaRows, MaxSummaryRows)
    /\ ledger = [present |-> TRUE, rows |-> <<>>]
    /\ exclusions = {}
    /\ ws_map = MapSheet(TRUE, <<>>, TRUE, <<"plain">>)
    /\ ws_calc = StaleVgoSheet
    /\ filtered_data = <<>>
    /\ pivot_data = <<>>
    /\ vgo_pivot = NoVgoPivot
    /\ mapping_data = <<>>
    /\ arr_err_be = <<>>
    /\ arr_rpt = <<>>
    /\ blocks = <<>>
    /\ history = NoHistory
    /\ run = NoRun

NextSummary ==
    \/ PreparePivot
    \/ WriteFirstBlock
    \/ EngineQueue
    \/ EngineSearch
    \/ EngineUpdate
    \/ EngineBlocks

SpecSummary == InitSummary /\ [][NextSummary]_vars

\* the sheet rows of the data rows of the summary table
SummaryDataRows == 6..(5 + Len(pivot_data))

\* the sum of a row of the summary table
SummarySum(r) == safe_float(Get(ws_calc, r, 4), 0)

\* the pivot records that a row of the summary table shows
RecordsShown(r) ==
    {i \in DOMAIN pivot_data :
        /\ safe_str(Get(ws_calc, r, 1)) = safe_str(pivot_data[i].be_supplier)
        /\ safe_str(Get(ws_calc, r, 2)) = safe_str(pivot_data[i].cfo)
        /\ safe_str(Get(ws_calc, r, 3)) = safe_str(pivot_data[i].be_buyer)
        /\ Get(ws_calc, r, 4) = pivot_data[i].sum}

\* C26: the data rows of the summary table of a VGO sheet show the pivot
\* records in non-increasing order of sum, records of equal sum in their
\* first-seen order, and the grand total row comes after all data rows
C26_SummaryStableDescending ==
    (PivotStepDone /\ pivot_data # <<>>) =>
        /\ \A r \in SummaryDataRows : Cardinality(RecordsShown(r)) = 1
        /\ \A r \in SummaryDataRows :
              (r + 1) \in SummaryDataRows => SummarySum(r) >= SummarySum(r + 1)
        /\ \A r1, r2 \in SummaryDataRows :
              (r1 < r2 /\ SummarySum(r1) = SummarySum(r2)) =>
                  \A i \in RecordsShown(r1), j \in RecordsShown(r2) : i < j
        /\ Get(ws_calc, 6 + Len(pivot_data), 1) = Str(GRAND_TOTAL)
        /\ \A p \in SummaryCells(ws_calc) : p[1] <= 6 + Len(pivot_data)

\* three pivot records, the first seen with a smaller sum than the two
\* others, which have equal sums
C26_Witness ==
    /\ PivotStepDone
    /\ Len(pivot_data) = 3
    /\ safe_float(pivot_data[1].sum, 0) < safe_float(pivot_data[2].sum, 0)
    /\ pivot_data[2].sum = pivot_data[3].sum
    /\ RecordsShown(6) = {2}
    /\ RecordsShown(7) = {3}
    /\ RecordsShown(8) = {1}

(***************************************************************************)
(* Properties of the progress callback                                      *)
(***************************************************************************)
\* C28: the percent values reported during a run of block 1 or of block 2
\* never decrease and stay within 0..100, and 100 is reported only in a run
\* whose save completed and whose result is a success
C28_ProgressMonotone ==
    /\ \A i \in DOMAIN run.progress : run.progress[i] \in 0..100
    /\ \A i \in DOMAIN run.progress :
          (i + 1) \in DOMAIN run.progress => run.progress[i] <= run.progress[i + 1]
    /\ 100 \in Reported => (run.saved /\ run.success)

\* a run of block 1 that reported every calculation sheet and ended with 100
C28_Witness ==
    /\ pc = "run_end"
    /\ run.block = 1
    /\ run.calc_sheets = CALC_SHEETS
    /\ {50 + 5 * i : i \in 1..CALC_SHEETS} \subseteq Reported
    /\ run.progress[Len(run.progress)] = 100
    /\ run.success

(***************************************************************************)
(* Specification SpecTemp: the sheets of the workbook during a run of      *)
(* block 1 (process, _delete_temp_sheets, get_or_create_sheet)             *)
(***************************************************************************)
TEMP_VGO_DATA == "Dannye_iz_fajla_po_VGO"
TEMP_VGO_PIVOT == "Svodnaya_VGO"
TEMP_SORT == "Sortirovka_po_statyam"
TEMP_BE_MAP == "BE_Mepping_BE_pokupatelya"
TEMP_BE_PIVOT == "Svodnaya_BE"
SHEET_START == "START"
SHEET_MARJA == "MARZHA"

TEMP_SHEETS == {TEMP_VGO_DATA, TEMP_VGO_PIVOT, TEMP_SORT, TEMP_BE_MAP, TEMP_BE_PIVOT}

\* the sheet names that are left when the temporary sheets leave the workbook
KeepTempSheets(sheetnames) == sheetnames

\* the sheet names after _delete_temp_sheets
_delete_temp_sheets(sheetnames) == sheetnames \ TEMP_SHEETS

\* the sheet names after get_or_create_sheet
get_or_create_sheet(sheetnames, name) == sheetnames \cup {name}

\* the outcomes of a load: done, failed before the sheet is looked up or
\* created, raised while the sheet is written
LoadOutcomes == {"ok", "no_data", "write_error"}

InitTemp ==
    /\ pc = "temp_start"
    /\ \E temp \in SUBSET TEMP_SHEETS, old_marja \in BOOLEAN, marja_load \in LoadOutcomes,
          vgo_load \in LoadOutcomes, cfo_ok \in BOOLEAN, sheets_ok \in BOOLEAN,
          save_ok \in BOOLEAN :
          run = [block |-> 1,
                 input |-> {SHEET_START} \cup temp
                           \cup (IF old_marja THEN {SHEET_MARJA} ELSE {}),
                 sheetnames |-> {SHEET_START} \cup temp
                                \cup (IF old_marja THEN {SHEET_MARJA} ELSE {}),
                 marja_load |-> marja_load, vgo_load |-> vgo_load, cfo_ok |-> cfo_ok,
                 sheets_ok |-> sheets_ok, save_ok |-> save_ok, at_save |-> {},
                 progress |-> <<>>, success |-> FALSE, saves |-> 0, saved |-> FALSE,
                 closed |-> FALSE]
    /\ variant = NoVariant
    /\ marja = <<>>
    /\ ledger = NoLedger
    /\ exclusions = {}
    /\ ws_map = NoMap
    /\ ws_calc = EmptySheet
    /\ filtered_data = <<>>
    /\ pivot_data = <<>>
    /\ vgo_pivot = NoVgoPivot
    /\ mapping_data = <<>>
    /\ arr_err_be = <<>>
    /\ arr_rpt = <<>>
    /\ blocks = <<>>
    /\ history = NoHistory

\* the run after a load into the sheet name
TempLoad(r, outcome, name, percent) ==
    IF outcome = "ok"
    THEN [r EXCEPT !.progress = @ \o <<percent>>,
                   !.sheetnames = get_or_create_sheet(@, name)]
    ELSE IF outcome = "write_error"
    THEN [r EXCEPT !.progress = @ \o <<percent>>,
                   !.sheetnames = get_or_create_sheet(@, name), !.closed = TRUE]
    ELSE [r EXCEPT !.progress = @ \o <<percent>>, !.closed = TRUE]

\* process, steps 1 to 3: the old temporary sheets are deleted
TempOpen ==
    /\ pc = "temp_start"
    /\ run' = [run EXCEPT !.progress = @ \o <<0, 5, 8, 10>>,
                          !.sheetnames = _delete_temp_sheets(@)]
    /\ pc' = "temp_load_marja"
    /\ RunFrame

\* process, step 4: _load_marja_data writes the sheet MARJA
TempLoadMarja ==
    /\ pc = "temp_load_marja"
    /\ run' = TempLoad(run, run.marja_load, SHEET_MARJA, 15)
    /\ pc' = IF run'.closed THEN "temp_end" ELSE "temp_load_vgo"
    /\ RunFrame

\* process, step 5: _load_vgo_data writes the temporary sheet of the ledger
TempLoadVgo ==
    /\ pc = "temp_load_vgo"
    /\ run' = TempLoad(run, run.vgo_load, TEMP_VGO_DATA, 25)
    /\ pc' = IF run'.closed THEN "temp_end" ELSE "temp_validate"
    /\ RunFrame

\* process, steps 6 to 8: formulas, T2 clients, _validate_cfo
TempValidate ==
    /\ pc = "temp_validate"
    /\ run' = [run EXCEPT !.progress = @ \o <<35, 40, 45>>, !.closed = ~run.cfo_ok]
    /\ pc' = IF run.cfo_ok THEN "temp_sheets" ELSE "temp_end"
    /\ RunFrame

\* process, step 9: the calculation sheets; an exception ends the run
TempCalcSheets ==
    /\ pc = "temp_sheets"
    /\ run' = [run EXCEPT !.progress = @ \o <<50>>, !.closed = ~run.sheets_ok]
    /\ pc' = IF run.sheets_ok THEN "temp_save" ELSE "temp_end"
    /\ RunFrame

\* process, steps 10 to 12: the temporary sheets are deleted, the formulas
\* of the mapping are evaluated, the workbook is saved
TempSave ==
    /\ pc = "temp_save"
    /\ LET left == _delete_temp_sheets(run.sheetnames)
       IN  run' = [run EXCEPT !.progress = @ \o (IF run.save_ok THEN <<90, 93, 95, 100>>
                                                   ELSE <<90, 93, 95>>),
                              !.sheetnames = left, !.at_save = left, !.saves = @ + 1,
                              !.saved = run.save_ok, !.success = run.save_ok,
                              !.closed = TRUE]
    /\ pc' = "temp_end"
    /\ RunFrame

NextTemp ==
    \/ TempOpen
    \/ TempLoadMarja
    \/ TempLoadVgo
    \/ TempValidate
    \/ TempCalcSheets
    \/ TempSave

SpecTemp == InitTemp /\ [][NextTemp]_vars

\* C27: in a run of block 1 that reaches the save step no temporary sheet
\* is in the workbook when it is saved, whichever of them were in the input
\* workbook or were created during the run
C27_NoTempSheetAtSave ==
    run.saves > 0 => (run.at_save \cap TEMP_SHEETS = {} /\ run.at_save # {})

\* a saved run whose input workbook held the five temporary sheets and that
\* created the temporary sheet of the ledger again after deleting it
C27_Witness ==
    /\ pc = "temp_end"
    /\ run.saves > 0
    /\ TEMP_SHEETS \subseteq run.input
    /\ run.vgo_load = "ok"
    /\ SHEET_MARJA \in run.at_save

(***************************************************************************)
(* Specification SpecCleanup: the cleanup of the correction sheet in       *)
(* block 2 (_cleanup_empty_rows); ws_calc holds the correction sheet; the  *)
(* number format of the column Interco2 is not a value and is left out     *)
(***************************************************************************)
MaxCorrRows == 3

H_DEBIT == "Debet"
H_BALANCE_UNIT == "Balansovaya Edinica"
H_ARTICLE == "Statya"

\* the row idx is emptied and the rows below stay in place
ClearRow(g, idx) == ClearRange(g, idx, idx, 1, max_col(g))

\* ws.delete_rows(idx): the row leaves the sheet, the rows below move up
delete_rows(g, idx) ==
    LET kept == {p \in DOMAIN g : p[1] # idx}
        moved(p) == IF p[1] > idx THEN <<p[1] - 1, p[2]>> ELSE p
    IN  [q \in {moved(p) : p \in kept} |->
            g[CHOOSE p \in kept : moved(p) = q]]

\* rows_to_delete: the rows from row down to 5 whose debit is 0 or None
\* (by_debit), or whose balance unit is falsy, in the order of the loop
RECURSIVE RowsToDelete(_, _, _, _)
RowsToDelete(g, row, column, by_debit) ==
    IF row <= 4
    THEN <<>>
    ELSE LET val == Get(g, row, column)
             hit == IF by_debit
                    THEN val = None \/ (val.k = "num" /\ val.n = 0)
                    ELSE ~Truthy(val)
         IN  (IF hit THEN <<row>> ELSE <<>>) \o RowsToDelete(g, row - 1, column, by_debit)

RECURSIVE DeleteRows(_, _)
DeleteRows(g, rows_to_delete) ==
    IF rows_to_delete = <<>>
    THEN g
    ELSE DeleteRows(delete_rows(g, Head(rows_to_delete)), Tail(rows_to_delete))

\* the correction sheet after _cleanup_empty_rows
_cleanup_empty_rows(g, corr_cols) ==
    LET g1 == IF corr_cols.debit > 0
              THEN DeleteRows(g, RowsToDelete(g, max_row(g), corr_cols.debit, TRUE))
              ELSE g
    IN  IF corr_cols.balance_unit > 0
        THEN DeleteRows(g1, RowsToDelete(g1, max_row(g1), corr_cols.balance_unit, FALSE))
        ELSE g1

\* the rows that _collect_data_from_calc_sheets leaves on the sheet:
\* balance unit, article, debit
CorrRowSet ==
    {<<be, Str(article), None, debit>> :
        be \in {None, Str("B1")}, article \in {"A1", "A2"},
        debit \in {None, Num(0), Num(400)}}

\* the copy of the template with its header row 4 and the collected rows
CorrSheet(rows) ==
    WriteRows(WriteRow(EmptySheet, 4, 1,
                       <<Str(H_BALANCE_UNIT), Str(H_ARTICLE), None, Str(H_DEBIT)>>),
              5, 1, rows)

InitCleanup ==
    /\ pc = "cleanup"
    /\ ws_calc \in {CorrSheet(rows) : rows \in SeqsUpTo(CorrRowSet, MaxCorrRows)}
    /\ run = [block |-> 2, progress |-> <<0, 5, 10, 15, 20, 25, 75>>,
              corr_cols |-> [balance_unit |-> find_value(ws_calc, H_BALANCE_UNIT, FALSE,
                                                         1, 1, 0, 0)[2],
                             debit |-> find_value(ws_calc, H_DEBIT, FALSE, 1, 1, 0, 0)[2]]]
    /\ history = NoHistory
    /\ variant = NoVariant
    /\ marja = <<>>
    /\ ledger = NoLedger
    /\ exclusions = {}
    /\ ws_map = NoMap
    /\ filtered_data = <<>>
    /\ pivot_data = <<>>
    /\ vgo_pivot = NoVgoPivot
    /\ mapping_data = <<>>
    /\ arr_err_be = <<>>
    /\ arr_rpt = <<>>
    /\ blocks = <<>>

\* process of block 2, step 7; the sheet before the step is kept in history
CleanupEmptyRows ==
    /\ pc = "cleanup"
    /\ ws_calc' = _cleanup_empty_rows(ws_calc, run.corr_cols)
    /\ history' = [history EXCEPT !.statuses = ws_calc]
    /\ run' = [run EXCEPT !.progress = @ \o <<80>>]
    /\ pc' = "cleanup_done"
    /\ UNCHANGED <<variant, marja, filtered_data, pivot_data, ledger, exclusions, ws_map,
                   vgo_pivot, mapping_data, arr_err_be, arr_rpt, blocks>>

NextCleanup == CleanupEmptyRows

SpecCleanup == InitCleanup /\ [][NextCleanup]_vars

\* the rows of a correction sheet from row 5 down, each as its cells
CorrRows(g) ==
    [i \in 1..(max_row(g) - 4) |-> [c \in 1..4 |-> Get(g, 4 + i, c)]]

\* a row has a debit other than 0 and a balance unit
FullRow(row) ==
    /\ row[4] # None
    /\ ~(row[4].k = "num" /\ row[4].n = 0)
    /\ row[1] # None
    /\ row[1] # Str("")

\* C29: after _cleanup_empty_rows every row of the correction sheet from
\* row 5 down has a debit other than 0 and a balance unit, and the rows
\* that had both before the cleanup are all there, in their order
C29_CleanupKeepsFullRows ==
    pc = "cleanup_done" =>
        /\ \A i \in DOMAIN CorrRows(ws_calc) : FullRow(CorrRows(ws_calc)[i])
        /\ CorrRows(ws_calc) = SelectSeq(CorrRows(history.statuses), FullRow)

\* a cleanup of three rows that took the second row from between two
\* different rows that stay
C29_Witness ==
    /\ pc = "cleanup_done"
    /\ Len(CorrRows(history.statuses)) = 3
    /\ Len(CorrRows(ws_calc)) = 2
    /\ CorrRows(ws_calc)[1] # CorrRows(ws_calc)[2]
    /\ ~FullRow(CorrRows(history.statuses)[2])

(***************************************************************************)
(* Specification SpecFrame: budget calculation sheets that hold cells of   *)
(* an earlier run in column E and in the columns from F on                 *)
(* (_process_single_calc_sheet)                                             *)
(***************************************************************************)
STALE == "old"

\* the cells of an earlier run: any of three cells of column E, a cell of
\* the old first block or not, and a cell above the blocks
StaleCellSets ==
    {left \cup right \cup {<<2, 9>>} :
        left \in SUBSET {<<5, 5>>, <<6, 5>>, <<9, 5>>}, right \in SUBSET {<<6, 7>>}}

StaleBudgetSheet(rows, stale) == [p \in stale |-> Str(STALE)] @@ BudgetSheet(rows)

InitFrame ==
    /\ pc = "start"
    /\ variant \in BudgetSheetVariants
    /\ marja = <<>>
    /\ ledger = [present |-> TRUE, rows |-> <<>>]
    /\ exclusions = {}
    /\ ws_map \in {MapSheet(TRUE, opex, TRUE, <<>>) :
                      opex \in {<<>>, <<<<Str("S1"), Str("OP1"), Str("A1"), Num(200)>>,
                                        <<Str("S2"), Str("OP2"), Str("A2"), Num(200)>>>>}}
    /\ ws_calc \in {StaleBudgetSheet(rows, stale) :
                       rows \in SeqsUpTo(BudgetPivotRows, MaxBudgetRows),
                       stale \in StaleCellSets}
    /\ filtered_data = <<>>
    /\ pivot_data = <<>>
    /\ vgo_pivot = NoVgoPivot
    /\ mapping_data = <<>>
    /\ arr_err_be = <<>>
    /\ arr_rpt = <<>>
    /\ blocks = <<>>
    /\ history = NoHistory
    /\ run = NoRun

SpecFrame == InitFrame /\ [][NextOpex]_vars

\* the cells of a sheet in the columns A to E
LeftCells(g) == {p \in DOMAIN g : p[2] <= 5}

====
